---- MODULE Spec2Model ----
(***************************************************************************)
(* Model of the yafai DSL engine (packages/primitives/src/parser.ts):      *)
(* tokenizer / tree builder, element classifier, serializer, validator    *)
(* and the id-addressed tree mutators, plus the agent's update_node path.  *)
(*                                                                         *)
(* Strings are sequences of one-character strings.  Positions are 0-based  *)
(* as in the source: the character at position p of inp is inp[p + 1].     *)
(***************************************************************************)
EXTENDS Integers, Sequences, FiniteSets, TLC

\* ------------------------------------------------------------------------
\* Bounds of the explored input space
\* ------------------------------------------------------------------------
MaxChunks == 3
MaxNodes == 4
MaxRuns == 5
MaxDepth == 2
MaxGaps == 2
MaxPieces == 3
MaxCalls == 3
MaxSockets == 2
MaxRequests == 2
MaxReviews == 3

\* ------------------------------------------------------------------------
\* String helpers (JavaScript string primitives used by the parser)
\* ------------------------------------------------------------------------
EOF == "EOF"

Upper == <<"A","B","C","D","E","F","G","H","I","J","K","L","M",
           "N","O","P","Q","R","S","T","U","V","W","X","Y","Z">>
Lower == <<"a","b","c","d","e","f","g","h","i","j","k","l","m",
           "n","o","p","q","r","s","t","u","v","w","x","y","z">>
Digits == <<"0","1","2","3","4","5","6","7","8","9">>

Range(s) == {s[i] : i \in DOMAIN s}

\* /[a-zA-Z0-9_-]/.test(ch)
IsNameChar(ch) == ch \in Range(Upper) \cup Range(Lower) \cup Range(Digits) \cup {"_", "-"}

\* characters String.prototype.trim removes (those of the model alphabet)
TrimSet == {" ", "\t", "\r", "\n"}

\* state.input[pos]  (undefined past the end)
At(inp, pos) == IF pos >= 0 /\ pos < Len(inp) THEN inp[pos + 1] ELSE EOF

Min(a, b) == IF a < b THEN a ELSE b
Max(a, b) == IF a > b THEN a ELSE b

\* input.slice(a, b) for 0 <= a
Slice(inp, a, b) ==
  LET lo == Min(Max(a, 0), Len(inp))
      hi == Min(Max(b, 0), Len(inp))
  IN IF hi <= lo THEN << >> ELSE SubSeq(inp, lo + 1, hi)

RECURSIVE TrimStart(_)
TrimStart(s) == IF s # << >> /\ Head(s) \in TrimSet THEN TrimStart(Tail(s)) ELSE s

RECURSIVE TrimEnd(_)
TrimEnd(s) ==
  IF s # << >> /\ s[Len(s)] \in TrimSet THEN TrimEnd(SubSeq(s, 1, Len(s) - 1)) ELSE s

Trim(s) == TrimEnd(TrimStart(s))

LowerChar(ch) ==
  IF ch \in Range(Upper)
  THEN Lower[CHOOSE i \in DOMAIN Upper : Upper[i] = ch]
  ELSE ch

UpperChar(ch) ==
  IF ch \in Range(Lower)
  THEN Upper[CHOOSE i \in DOMAIN Lower : Lower[i] = ch]
  ELSE ch

toLowerCase(s) == [i \in DOMAIN s |-> LowerChar(s[i])]

RECURSIVE Repeat(_, _)
Repeat(ch, n) == IF n <= 0 THEN << >> ELSE <<ch>> \o Repeat(ch, n - 1)

RECURSIVE Concat(_)
Concat(ss) == IF ss = << >> THEN << >> ELSE Head(ss) \o Concat(Tail(ss))

Includes(s, ch) == \E i \in DOMAIN s : s[i] = ch

\* property / attribute names as character sequences
KeyChars ==
  [id |-> <<"i", "d">>,
   name |-> <<"n", "a", "m", "e">>,
   visible |-> <<"v", "i", "s", "i", "b", "l", "e">>,
   opacity |-> <<"o", "p", "a", "c", "i", "t", "y">>,
   x |-> <<"x">>,
   y |-> <<"y">>,
   width |-> <<"w", "i", "d", "t", "h">>,
   height |-> <<"h", "e", "i", "g", "h", "t">>,
   rotation |-> <<"r", "o", "t", "a", "t", "i", "o", "n">>,
   fill |-> <<"f", "i", "l", "l">>,
   stroke |-> <<"s", "t", "r", "o", "k", "e">>,
   strokeWeight |-> <<"s", "t", "r", "o", "k", "e", "W", "e", "i", "g", "h", "t">>,
   cornerRadius |-> <<"c", "o", "r", "n", "e", "r", "R", "a", "d", "i", "u", "s">>,
   layoutMode |-> <<"l", "a", "y", "o", "u", "t", "M", "o", "d", "e">>,
   gap |-> <<"g", "a", "p">>,
   itemSpacing |-> <<"i", "t", "e", "m", "S", "p", "a", "c", "i", "n", "g">>,
   padding |-> <<"p", "a", "d", "d", "i", "n", "g">>,
   paddingTop |-> <<"p", "a", "d", "d", "i", "n", "g", "T", "o", "p">>,
   paddingRight |-> <<"p", "a", "d", "d", "i", "n", "g", "R", "i", "g", "h", "t">>,
   paddingBottom |-> <<"p", "a", "d", "d", "i", "n", "g", "B", "o", "t", "t", "o", "m">>,
   paddingLeft |-> <<"p", "a", "d", "d", "i", "n", "g", "L", "e", "f", "t">>,
   primaryAxisAlign |-> <<"p", "r", "i", "m", "a", "r", "y", "A", "x", "i", "s", "A", "l", "i", "g", "n">>,
   counterAxisAlign |-> <<"c", "o", "u", "n", "t", "e", "r", "A", "x", "i", "s", "A", "l", "i", "g", "n">>,
   primaryAxisSizing |-> <<"p", "r", "i", "m", "a", "r", "y", "A", "x", "i", "s", "S", "i", "z", "i", "n", "g">>,
   counterAxisSizing |-> <<"c", "o", "u", "n", "t", "e", "r", "A", "x", "i", "s", "S", "i", "z", "i", "n", "g">>,
   layoutWrap |-> <<"l", "a", "y", "o", "u", "t", "W", "r", "a", "p">>,
   clipsContent |-> <<"c", "l", "i", "p", "s", "C", "o", "n", "t", "e", "n", "t">>,
   text |-> <<"t", "e", "x", "t">>,
   fontFamily |-> <<"f", "o", "n", "t", "F", "a", "m", "i", "l", "y">>,
   fontSize |-> <<"f", "o", "n", "t", "S", "i", "z", "e">>,
   fontWeight |-> <<"f", "o", "n", "t", "W", "e", "i", "g", "h", "t">>,
   fontStyle |-> <<"f", "o", "n", "t", "S", "t", "y", "l", "e">>,
   textAlign |-> <<"t", "e", "x", "t", "A", "l", "i", "g", "n">>,
   textAlignVertical |-> <<"t", "e", "x", "t", "A", "l", "i", "g", "n", "V", "e", "r", "t", "i", "c", "a", "l">>,
   path |-> <<"p", "a", "t", "h">>,
   svg |-> <<"s", "v", "g">>,
   imageRef |-> <<"i", "m", "a", "g", "e", "R", "e", "f">>,
   src |-> <<"s", "r", "c">>,
   scaleMode |-> <<"s", "c", "a", "l", "e", "M", "o", "d", "e">>,
   background |-> <<"b", "a", "c", "k", "g", "r", "o", "u", "n", "d">>,
   color |-> <<"c", "o", "l", "o", "r">>,
   value |-> <<"v", "a", "l", "u", "e">>,
   label |-> <<"l", "a", "b", "e", "l">>,
   items |-> <<"i", "t", "e", "m", "s">>,
   level |-> <<"l", "e", "v", "e", "l">>,
   lineHeight |-> <<"l", "i", "n", "e", "H", "e", "i", "g", "h", "t">>,
   letterSpacing |-> <<"l", "e", "t", "t", "e", "r", "S", "p", "a", "c", "i", "n", "g">>,
   textAutoResize |-> <<"t", "e", "x", "t", "A", "u", "t", "o", "R", "e", "s", "i", "z", "e">>,
   textDecoration |-> <<"t", "e", "x", "t", "D", "e", "c", "o", "r", "a", "t", "i", "o", "n">>,
   textCase |-> <<"t", "e", "x", "t", "C", "a", "s", "e">>,
   maxLines |-> <<"m", "a", "x", "L", "i", "n", "e", "s">>,
   type |-> <<"t", "y", "p", "e">>,
   children |-> <<"c", "h", "i", "l", "d", "r", "e", "n">>]
  @@ ("font size" :> <<"f", "o", "n", "t", " ", "s", "i", "z", "e">>)
  @@ ("$fill" :> <<"$", "f", "i", "l", "l">>)
\* string literals of the source as character sequences
Lit ==
  [frame |-> <<"f", "r", "a", "m", "e">>,
   text |-> <<"t", "e", "x", "t">>,
   rectangle |-> <<"r", "e", "c", "t", "a", "n", "g", "l", "e">>,
   ellipse |-> <<"e", "l", "l", "i", "p", "s", "e">>,
   vector |-> <<"v", "e", "c", "t", "o", "r">>,
   image |-> <<"i", "m", "a", "g", "e">>,
   group |-> <<"g", "r", "o", "u", "p">>,
   slide |-> <<"s", "l", "i", "d", "e">>,
   slidetitle |-> <<"s", "l", "i", "d", "e", "t", "i", "t", "l", "e">>,
   card |-> <<"c", "a", "r", "d">>,
   statnumber |-> <<"s", "t", "a", "t", "n", "u", "m", "b", "e", "r">>,
   bulletlist |-> <<"b", "u", "l", "l", "e", "t", "l", "i", "s", "t">>,
   heading |-> <<"h", "e", "a", "d", "i", "n", "g">>,
   paragraph |-> <<"p", "a", "r", "a", "g", "r", "a", "p", "h">>,
   fill |-> <<"f", "i", "l", "l">>,
   hug |-> <<"h", "u", "g">>,
   true |-> <<"t", "r", "u", "e">>,
   false |-> <<"f", "a", "l", "s", "e">>,
   Slide |-> <<"S", "l", "i", "d", "e">>,
   SlideTitle |-> <<"S", "l", "i", "d", "e", "T", "i", "t", "l", "e">>,
   Card |-> <<"C", "a", "r", "d">>,
   StatNumber |-> <<"S", "t", "a", "t", "N", "u", "m", "b", "e", "r">>,
   BulletList |-> <<"B", "u", "l", "l", "e", "t", "L", "i", "s", "t">>,
   Heading |-> <<"H", "e", "a", "d", "i", "n", "g">>,
   Paragraph |-> <<"P", "a", "r", "a", "g", "r", "a", "p", "h">>,
   Inter |-> <<"I", "n", "t", "e", "r">>,
   vertical |-> <<"v", "e", "r", "t", "i", "c", "a", "l">>,
   horizontal |-> <<"h", "o", "r", "i", "z", "o", "n", "t", "a", "l">>,
   white |-> <<"#", "f", "f", "f", "f", "f", "f">>,
   ink |-> <<"#", "1", "a", "1", "a", "2", "e">>,
   cardfill |-> <<"#", "f", "8", "f", "a", "f", "c">>,
   blue |-> <<"#", "2", "5", "6", "3", "e", "b">>,
   grey |-> <<"#", "6", "b", "7", "2", "8", "0">>,
   amp |-> <<"&", "a", "m", "p", ";">>,
   lt |-> <<"&", "l", "t", ";">>,
   gt |-> <<"&", "g", "t", ";">>,
   quot |-> <<"&", "q", "u", "o", "t", ";">>,
   bullet |-> <<"bullet">>]

\* ------------------------------------------------------------------------
\* ParseError and getErrorContext
\* ------------------------------------------------------------------------
contextChars == 40

NoPos == 0

getErrorContext(inp, pos) ==
  LET start  == Max(0, pos - contextChars)
      end    == Min(Len(inp), pos + contextChars)
      before == Slice(inp, start, pos)
      after  == Slice(inp, pos, end)
  IN before \o after \o <<"\n">> \o Repeat(" ", Len(before)) \o <<"^">>

\* found token: state.input[pos] || 'end of input'
FoundAt(inp, pos) == IF At(inp, pos) = EOF THEN <<EOF>> ELSE <<At(inp, pos)>>

\* new ParseError(message, line, column, context, found); offset is the
\* scan position the error was raised at (kept to relate line/column to it)
ParseError(template, args, line, column, context, found, offset) ==
  [class |-> "ParseError", template |-> template, args |-> args, line |-> line,
   column |-> column, context |-> context, found |-> found, offset |-> offset]

\* a runtime TypeError raised by the host (not a ParseError)
TypeError(template) ==
  [class |-> "TypeError", template |-> template, args |-> << >>, line |-> NoPos,
   column |-> NoPos, context |-> << >>, found |-> << >>, offset |-> NoPos]

\* ------------------------------------------------------------------------
\* Tokenizer / tree builder
\* ------------------------------------------------------------------------
ParseState(pos, line, column) == [pos |-> pos, line |-> line, column |-> column]

Advance(st, n) == [st EXCEPT !.pos = @ + n, !.column = @ + n]

NewLine(st) == [pos |-> st.pos + 1, line |-> st.line + 1, column |-> 1]

RECURSIVE skipWhitespace(_, _)
skipWhitespace(inp, st) ==
  IF st.pos < Len(inp)
  THEN LET ch == At(inp, st.pos) IN
       IF ch \in {" ", "\t", "\r"} THEN skipWhitespace(inp, Advance(st, 1))
       ELSE IF ch = "\n" THEN skipWhitespace(inp, NewLine(st))
       ELSE st
  ELSE st

RECURSIVE skipCommentBody(_, _)
skipCommentBody(inp, st) ==
  IF st.pos < Len(inp)
  THEN IF Slice(inp, st.pos, st.pos + 3) = <<"-", "-", ">">>
       THEN Advance(st, 3)
       ELSE IF At(inp, st.pos) = "\n"
            THEN skipCommentBody(inp, NewLine(st))
            ELSE skipCommentBody(inp, Advance(st, 1))
  ELSE st

\* returns [skipped, st]
skipComment(inp, st) ==
  IF Slice(inp, st.pos, st.pos + 4) # <<"<", "!", "-", "-">>
  THEN [skipped |-> FALSE, st |-> st]
  ELSE [skipped |-> TRUE, st |-> skipCommentBody(inp, Advance(st, 4))]

RECURSIVE skipWhitespaceAndComments(_, _)
skipWhitespaceAndComments(inp, st) ==
  IF st.pos < Len(inp)
  THEN LET s1 == skipWhitespace(inp, st)
           c  == skipComment(inp, s1)
       IN IF c.skipped THEN skipWhitespaceAndComments(inp, c.st) ELSE s1
  ELSE st

RECURSIVE scanName(_, _)
scanName(inp, st) ==
  IF st.pos < Len(inp) /\ IsNameChar(At(inp, st.pos))
  THEN scanName(inp, Advance(st, 1))
  ELSE st

\* scan of a quoted attribute value: up to the closing quote or the end
RECURSIVE scanQuoted(_, _)
scanQuoted(inp, st) ==
  IF st.pos < Len(inp) /\ At(inp, st.pos) # "\""
  THEN scanQuoted(inp, Advance(st, 1))
  ELSE st

\* scan of a brace value, counting { and }
RECURSIVE scanBraces(_, _, _)
scanBraces(inp, st, braceDepth) ==
  IF st.pos < Len(inp) /\ braceDepth > 0
  THEN LET ch == At(inp, st.pos)
           d  == IF ch = "{" THEN braceDepth + 1
                 ELSE IF ch = "}" THEN braceDepth - 1 ELSE braceDepth
       IN IF d > 0 THEN scanBraces(inp, Advance(st, 1), d)
          ELSE scanBraces(inp, st, d)
  ELSE st

\* attributes[attrName] = value on an insertion-ordered object
SetAttr(attrs, name, value) ==
  IF \E i \in DOMAIN attrs : attrs[i].name = name
  THEN [i \in DOMAIN attrs |->
          IF attrs[i].name = name THEN [name |-> name, value |-> value] ELSE attrs[i]]
  ELSE Append(attrs, [name |-> name, value |-> value])

HasAttr(attrs, name) == \E i \in DOMAIN attrs : attrs[i].name = name

AttrOf(attrs, name) == attrs[CHOOSE i \in DOMAIN attrs : attrs[i].name = name].value

Thrown(err) == [kind |-> "error", err |-> err]
Hang == [kind |-> "hang"]

\* the attribute loop of parseElement (lines 255-352).  Result kinds:
\*   "children" - the loop was left by '>' or by reaching the end of input
\*   "self"     - '/>' was found: parseElement returns a self-closing element
\*   "error"    - a ParseError was thrown
\*   "hang"     - an iteration left the state unchanged (`continue` with an
\*                empty attribute name): the loop never ends
RECURSIVE attrLoop(_, _, _)
attrLoop(inp, st0, attributes) ==
  IF ~(st0.pos < Len(inp))
  THEN [kind |-> "children", st |-> st0, attributes |-> attributes]
  ELSE
  LET st1 == skipWhitespace(inp, st0) IN
  IF At(inp, st1.pos) = ">"
  THEN [kind |-> "children", st |-> Advance(st1, 1), attributes |-> attributes]
  ELSE IF Slice(inp, st1.pos, st1.pos + 2) = <<"/", ">">>
  THEN [kind |-> "self", st |-> Advance(st1, 2), attributes |-> attributes]
  ELSE
  LET st2      == scanName(inp, st1)
      attrName == Slice(inp, st1.pos, st2.pos)
  IN
  IF attrName = << >>
  THEN IF st1.pos < Len(inp) THEN Hang
       ELSE [kind |-> "children", st |-> st1, attributes |-> attributes]
  ELSE
  LET st3 == skipWhitespace(inp, st2) IN
  IF At(inp, st3.pos) # "="
  THEN Thrown(ParseError("Expected \"=\" after attribute \"%1\"", <<attrName>>,
                         st3.line, st3.column, getErrorContext(inp, st3.pos),
                         FoundAt(inp, st3.pos), st3.pos))
  ELSE
  LET st4 == skipWhitespace(inp, Advance(st3, 1)) IN
  IF At(inp, st4.pos) = "\""
  THEN LET st5   == scanQuoted(inp, Advance(st4, 1))
           value == Slice(inp, st4.pos + 1, st5.pos)
       IN attrLoop(inp, Advance(st5, 1), SetAttr(attributes, attrName, value))
  ELSE IF At(inp, st4.pos) = "{"
  THEN LET st5 == scanBraces(inp, Advance(st4, 1), 1)
           raw == Trim(Slice(inp, st4.pos + 1, st5.pos))
           value == IF raw # << >> /\ Head(raw) = "\"" /\ raw[Len(raw)] = "\""
                    THEN Slice(raw, 1, Len(raw) - 1)
                    ELSE raw
       IN attrLoop(inp, Advance(st5, 1), SetAttr(attributes, attrName, value))
  ELSE Thrown(ParseError("Expected '\"' or '{' for attribute value", << >>,
                         st4.line, st4.column, getErrorContext(inp, st4.pos),
                         FoundAt(inp, st4.pos), st4.pos))

\* text content: up to the next '<' or the end
RECURSIVE scanText(_, _)
scanText(inp, st) ==
  IF st.pos < Len(inp) /\ At(inp, st.pos) # "<"
  THEN scanText(inp, Advance(st, 1))
  ELSE st

XMLElement(tag, attributes, children, selfClosing) ==
  [tag |-> tag, attributes |-> attributes, children |-> children,
   selfClosing |-> selfClosing]

TextChild(s) == [isText |-> TRUE, text |-> s]
ElemChild(e) == [isText |-> FALSE, el |-> e]

\* closeTag !== tag is false (line 376)
closingTagMatches_ignoringCase(closeTag, tag) == toLowerCase(closeTag) = toLowerCase(tag)

closingTagMatches(closeTag, tag) == closeTag = tag

RECURSIVE parseElement(_, _)
RECURSIVE childLoop(_, _, _, _)

\* lines 408-411: the child element c is pushed and the loop goes on after it;
\* an error thrown inside the child leaves the loop
pushChild(inp, tag, children, c) ==
  IF c.kind = "elem"
  THEN childLoop(inp, c.st, tag, Append(children, ElemChild(c.el)))
  ELSE c

\* the children loop of parseElement (lines 357-424).  Result kinds:
\*   "done" (closing tag consumed or end of input), "error", "hang"
childLoop(inp, st0, tag, children) ==
  IF ~(st0.pos < Len(inp))
  THEN [kind |-> "done", st |-> st0, children |-> children]
  ELSE
  LET st1 == skipWhitespaceAndComments(inp, st0) IN
  IF Slice(inp, st1.pos, st1.pos + 2) = <<"<", "/">>
  THEN LET st2      == scanName(inp, Advance(st1, 2))
           closeTag == Slice(inp, st1.pos + 2, st2.pos)
       IN IF ~closingTagMatches(closeTag, tag)
          THEN Thrown(ParseError("Mismatched closing tag: expected </%1>, got </%2>",
                                 <<tag, closeTag>>, st2.line, st2.column,
                                 getErrorContext(inp, st2.pos),
                                 <<"<", "/">> \o closeTag \o <<">">>, st2.pos))
          ELSE LET st3 == skipWhitespace(inp, st2) IN
               IF At(inp, st3.pos) # ">"
               THEN Thrown(ParseError("Expected \">\" after closing tag </%1>", <<tag>>,
                                      st3.line, st3.column,
                                      getErrorContext(inp, st3.pos),
                                      FoundAt(inp, st3.pos), st3.pos))
               ELSE [kind |-> "done", st |-> Advance(st3, 1), children |-> children]
  ELSE IF At(inp, st1.pos) = "<"
  THEN pushChild(inp, tag, children, parseElement(inp, st1))
  ELSE LET st2  == scanText(inp, st1)
           text == Trim(Slice(inp, st1.pos, st2.pos))
       IN childLoop(inp, st2, tag,
                    IF text # << >> THEN Append(children, TextChild(text)) ELSE children)

\* line 426: the element returned once the children loop c has ended
closedElement(tag, attributes, c) ==
  IF c.kind \in {"error", "hang"} THEN c
  ELSE [kind |-> "elem", st |-> c.st,
        el |-> XMLElement(tag, attributes, c.children, FALSE)]

\* lines 269 and 354-426: what follows the attribute loop a
afterAttributes(inp, tag, a) ==
  IF a.kind \in {"error", "hang"} THEN a
  ELSE IF a.kind = "self"
  THEN [kind |-> "elem", st |-> a.st, el |-> XMLElement(tag, a.attributes, << >>, TRUE)]
  ELSE closedElement(tag, a.attributes, childLoop(inp, a.st, tag, << >>))

\* parseElement (lines 221-427).  Result kinds:
\*   "null"  - no '<' at the position
\*   "elem"  - an element, with the state after it
\*   "error" - a ParseError was thrown
\*   "hang"  - the attribute loop never ends
parseElement(inp, st0) ==
  IF At(inp, st0.pos) # "<"
  THEN [kind |-> "null", st |-> st0]
  ELSE
  LET st1 == Advance(st0, 1)
      st2 == scanName(inp, st1)
      tag == Slice(inp, st1.pos, st2.pos)
  IN
  IF tag = << >>
  THEN Thrown(ParseError("Expected tag name after \"<\"", << >>, st2.line, st2.column,
                         getErrorContext(inp, st2.pos), FoundAt(inp, st2.pos), st2.pos))
  ELSE
  afterAttributes(inp, tag, attrLoop(inp, st2, << >>))

\* ------------------------------------------------------------------------
\* Values of node properties (string | number | boolean | undefined | null)
\* ------------------------------------------------------------------------
Undefined == [t |-> "undefined", s |-> << >>, n |-> 0]
Null      == [t |-> "null", s |-> << >>, n |-> 0]
Str(s)    == [t |-> "string", s |-> s, n |-> 0]
Num(n)    == [t |-> "number", s |-> << >>, n |-> n]
Bool(b)   == [t |-> "boolean", s |-> << >>, n |-> IF b THEN 1 ELSE 0]

\* JavaScript truthiness of a value
Truthy(v) ==
  CASE v.t = "undefined" -> FALSE
    [] v.t = "null"      -> FALSE
    [] v.t = "string"    -> v.s # << >>
    [] v.t = "number"    -> v.n # 0
    [] OTHER             -> v.n = 1

\* a || b   and   a ?? b
OrElse(a, b) == IF Truthy(a) THEN a ELSE b
Coalesce(a, b) == IF a.t \in {"undefined", "null"} THEN b ELSE a

\* attrs.<key> on the attribute record of an element
attr(attrs, key) ==
  IF HasAttr(attrs, KeyChars[key]) THEN Str(AttrOf(attrs, KeyChars[key])) ELSE Undefined

DigitVal(ch) == (CHOOSE i \in DOMAIN Digits : Digits[i] = ch) - 1

IsDigit(ch) == ch \in Range(Digits)

RECURSIVE DigitsPrefix(_)
DigitsPrefix(s) ==
  IF s # << >> /\ IsDigit(Head(s)) THEN <<Head(s)>> \o DigitsPrefix(Tail(s)) ELSE << >>

RECURSIVE DigitsValue(_, _)
DigitsValue(s, acc) ==
  IF s = << >> THEN acc ELSE DigitsValue(Tail(s), 10 * acc + DigitVal(Head(s)))

\* Number.parseFloat on the decimal-integer strings of the model alphabet:
\* leading white space, an optional sign, then the longest run of digits;
\* NaN when there is no digit.  (Fractions and exponents are outside the
\* alphabet of the explored inputs.)
parseFloat(s) ==
  LET t    == TrimStart(s)
      neg  == t # << >> /\ Head(t) = "-"
      body == IF t # << >> /\ Head(t) \in {"-", "+"} THEN Tail(t) ELSE t
      ds   == DigitsPrefix(body)
  IN IF ds = << >> THEN [nan |-> TRUE, n |-> 0]
     ELSE [nan |-> FALSE, n |-> IF neg THEN 0 - DigitsValue(ds, 0) ELSE DigitsValue(ds, 0)]

parseNumber(value) ==
  IF value.t = "undefined" THEN Undefined
  ELSE LET num == parseFloat(value.s) IN IF num.nan THEN Undefined ELSE Num(num.n)

parseBoolean(value) ==
  IF value.t = "undefined" THEN Undefined
  ELSE Bool(value.s = Lit.true \/ value.s = <<"1">>)

parseSizeValue(value) ==
  IF value.t = "undefined" THEN Undefined
  ELSE IF value.s = Lit.fill \/ value.s = Lit.hug THEN value
  ELSE LET num == parseFloat(value.s) IN IF num.nan THEN Undefined ELSE Num(num.n)

\* ------------------------------------------------------------------------
\* Primitive nodes as values: an insertion-ordered list of properties
\* (Object.entries order), and the children array when the node has one
\* ------------------------------------------------------------------------
Prop(key, val) == [key |-> key, val |-> val]

Primitive(props, hasChildren, children) ==
  [props |-> props, hasChildren |-> hasChildren, children |-> children]

HasProp(p, key) == \E i \in DOMAIN p.props : p.props[i].key = key

Get(p, key) ==
  IF HasProp(p, key)
  THEN p.props[CHOOSE i \in DOMAIN p.props : p.props[i].key = key].val
  ELSE Undefined

\* one property of an object literal, converted as the parse function does
Field(attrs, key, conv) ==
  Prop(key,
       CASE conv = "str"  -> attr(attrs, key)
         [] conv = "num"  -> parseNumber(attr(attrs, key))
         [] conv = "bool" -> parseBoolean(attr(attrs, key))
         [] OTHER         -> parseSizeValue(attr(attrs, key)))

Fields(attrs, spec) == [i \in DOMAIN spec |-> Field(attrs, spec[i][1], spec[i][2])]

BaseSpec ==
  << <<"id", "str">>, <<"name", "str">>, <<"visible", "bool">>, <<"opacity", "num">>,
     <<"x", "num">>, <<"y", "num">>, <<"width", "size">>, <<"height", "size">> >>

TypeProp(t) == <<Prop("type", Str(t))>>

IsElem(c) == ~c.isText

\* element.children.filter(c => typeof c !== 'string')
ElementChildren(children) == SelectSeq(children, IsElem)

IsTextChild(c) == c.isText

\* the text content shared by parseText, parseSlideTitle, parseHeading and
\* parseParagraph: attrs.text, or else the first string child
textContentOf(element) ==
  LET fromAttr == attr(element.attributes, "text")
      strs     == SelectSeq(element.children, IsTextChild)
  IN IF Truthy(fromAttr) THEN fromAttr
     ELSE IF strs # << >> /\ strs[1].text # << >> THEN Str(strs[1].text)
     ELSE fromAttr

validTypes == "Frame, Text, Rectangle, Ellipse, Vector, Image, Group, Slide, SlideTitle, Card, StatNumber, BulletList, Heading, Paragraph"

Ok(prim) == [kind |-> "ok", prim |-> prim]

RECURSIVE elementToPrimitive(_)
RECURSIVE mapChildren(_, _)

\* one step of children.map: a throw in the conversion r aborts the map
mapNext_skippingFailures(r, elems, acc) ==
  IF r.kind # "ok" THEN mapChildren(Tail(elems), acc)
  ELSE mapChildren(Tail(elems), Append(acc, r.prim))

mapNext(r, elems, acc) ==
  IF r.kind # "ok" THEN r ELSE mapChildren(Tail(elems), Append(acc, r.prim))

\* children.map(c => elementToPrimitive(c))
mapChildren(elems, acc) ==
  IF elems = << >> THEN [kind |-> "ok", prims |-> acc]
  ELSE mapNext(elementToPrimitive(Head(elems).el), elems, acc)

\* the object literal of a container, once its children are mapped
WithChildren(m, props) ==
  IF m.kind # "ok" THEN m ELSE Ok(Primitive(props, TRUE, m.prims))

parseFrame(element) ==
  LET attrs == element.attributes
      props == TypeProp(Lit.frame)
               \o Fields(attrs, BaseSpec)
               \o Fields(attrs, << <<"rotation", "num">>, <<"fill", "str">>,
                                   <<"stroke", "str">>, <<"strokeWeight", "num">>,
                                   <<"cornerRadius", "num">>, <<"layoutMode", "str">> >>)
               \o <<Prop("gap", Coalesce(parseNumber(attr(attrs, "gap")),
                                         parseNumber(attr(attrs, "itemSpacing"))))>>
               \o Fields(attrs, << <<"padding", "num">>, <<"paddingTop", "num">>,
                                   <<"paddingRight", "num">>, <<"paddingBottom", "num">>,
                                   <<"paddingLeft", "num">>, <<"primaryAxisAlign", "str">>,
                                   <<"counterAxisAlign", "str">>,
                                   <<"primaryAxisSizing", "str">>,
                                   <<"counterAxisSizing", "str">>,
                                   <<"layoutWrap", "str">>, <<"clipsContent", "bool">> >>)
  IN IF Len(element.children) > 0
     THEN WithChildren(mapChildren(ElementChildren(element.children), << >>), props)
     ELSE Ok(Primitive(props, FALSE, << >>))

parseText(element) ==
  LET attrs == element.attributes IN
  Ok(Primitive(TypeProp(Lit.text)
               \o Fields(attrs, BaseSpec)
               \o <<Prop("text", textContentOf(element))>>
               \o Fields(attrs, << <<"fontFamily", "str">>, <<"fontSize", "num">>,
                                   <<"fontWeight", "num">>, <<"fontStyle", "str">>,
                                   <<"textAlign", "str">>, <<"textAlignVertical", "str">>,
                                   <<"fill", "str">> >>),
               FALSE, << >>))

parseRectangle(element) ==
  Ok(Primitive(TypeProp(Lit.rectangle)
               \o Fields(element.attributes, BaseSpec)
               \o Fields(element.attributes,
                         << <<"fill", "str">>, <<"stroke", "str">>,
                            <<"strokeWeight", "num">>, <<"cornerRadius", "num">> >>),
               FALSE, << >>))

parseEllipse(element) ==
  Ok(Primitive(TypeProp(Lit.ellipse)
               \o Fields(element.attributes, BaseSpec)
               \o Fields(element.attributes,
                         << <<"fill", "str">>, <<"stroke", "str">>,
                            <<"strokeWeight", "num">> >>),
               FALSE, << >>))

parseVector(element) ==
  Ok(Primitive(TypeProp(Lit.vector)
               \o Fields(element.attributes, BaseSpec)
               \o Fields(element.attributes,
                         << <<"path", "str">>, <<"svg", "str">>, <<"fill", "str">>,
                            <<"stroke", "str">>, <<"strokeWeight", "num">> >>),
               FALSE, << >>))

parseImage(element) ==
  Ok(Primitive(TypeProp(Lit.image)
               \o Fields(element.attributes, BaseSpec)
               \o Fields(element.attributes,
                         << <<"imageRef", "str">>, <<"src", "str">>,
                            <<"scaleMode", "str">>, <<"cornerRadius", "num">> >>),
               FALSE, << >>))

parseGroup(element) ==
  WithChildren(mapChildren(ElementChildren(element.children), << >>),
               TypeProp(Lit.group)
               \o Fields(element.attributes,
                         << <<"id", "str">>, <<"name", "str">>, <<"visible", "bool">>,
                            <<"opacity", "num">>, <<"x", "num">>, <<"y", "num">> >>))

parseSlide(element) ==
  LET attrs == element.attributes IN
  WithChildren(mapChildren(ElementChildren(element.children), << >>),
            TypeProp(Lit.frame)
            \o << Prop("id", attr(attrs, "id")),
                  Prop("name", OrElse(attr(attrs, "name"), Str(Lit.Slide))),
                  Prop("x", Coalesce(parseNumber(attr(attrs, "x")), Num(0))),
                  Prop("y", Coalesce(parseNumber(attr(attrs, "y")), Num(0))),
                  Prop("width", Num(1920)),
                  Prop("height", Num(1080)),
                  Prop("fill", OrElse(attr(attrs, "fill"),
                                      OrElse(attr(attrs, "background"), Str(Lit.white)))),
                  Prop("clipsContent", Bool(TRUE)) >>)

parseSlideTitle(element) ==
  LET attrs == element.attributes IN
  Ok(Primitive(
       TypeProp(Lit.text)
       \o << Prop("id", attr(attrs, "id")),
             Prop("name", OrElse(attr(attrs, "name"), Str(Lit.SlideTitle))),
             Prop("x", Coalesce(parseNumber(attr(attrs, "x")), Num(80))),
             Prop("y", Coalesce(parseNumber(attr(attrs, "y")), Num(60))),
             Prop("text", textContentOf(element)),
             Prop("fontFamily", OrElse(attr(attrs, "fontFamily"), Str(Lit.Inter))),
             Prop("fontSize", Coalesce(parseNumber(attr(attrs, "fontSize")), Num(48))),
             Prop("fontWeight", Coalesce(parseNumber(attr(attrs, "fontWeight")), Num(600))),
             Prop("fill", OrElse(attr(attrs, "fill"),
                                 OrElse(attr(attrs, "color"), Str(Lit.ink)))) >>,
       FALSE, << >>))

parseCard(element) ==
  LET attrs == element.attributes IN
  WithChildren(mapChildren(ElementChildren(element.children), << >>),
            TypeProp(Lit.frame)
            \o << Prop("id", attr(attrs, "id")),
                  Prop("name", OrElse(attr(attrs, "name"), Str(Lit.Card))),
                  Prop("x", Coalesce(parseNumber(attr(attrs, "x")), Num(80))),
                  Prop("y", Coalesce(parseNumber(attr(attrs, "y")), Num(180))),
                  Prop("width", Coalesce(parseSizeValue(attr(attrs, "width")), Num(800))),
                  Prop("height", parseSizeValue(attr(attrs, "height"))),
                  Prop("fill", OrElse(attr(attrs, "fill"),
                                      OrElse(attr(attrs, "background"), Str(Lit.cardfill)))),
                  Prop("cornerRadius",
                       Coalesce(parseNumber(attr(attrs, "cornerRadius")), Num(8))),
                  Prop("padding", Coalesce(parseNumber(attr(attrs, "padding")), Num(24))),
                  Prop("layoutMode", Str(Lit.vertical)),
                  Prop("gap", Coalesce(parseNumber(attr(attrs, "gap")), Num(16))) >>)

GeneratedText_withId(text, fontSize, hasWeight, fontWeight, fill) ==
  Primitive(TypeProp(Lit.text)
            \o << Prop("id", Str(<<"g">>)), Prop("text", text),
                  Prop("fontFamily", Str(Lit.Inter)), Prop("fontSize", Num(fontSize)),
                  Prop("fill", Str(fill)) >>,
            FALSE, << >>)

\* an auto-generated text child of StatNumber
GeneratedText(text, fontSize, hasWeight, fontWeight, fill) ==
  Primitive(TypeProp(Lit.text)
            \o << Prop("text", text), Prop("fontFamily", Str(Lit.Inter)),
                  Prop("fontSize", Num(fontSize)) >>
            \o (IF hasWeight THEN <<Prop("fontWeight", Num(fontWeight))>> ELSE << >>)
            \o << Prop("fill", Str(fill)) >>,
            FALSE, << >>)

parseStatNumber(element) ==
  LET attrs == element.attributes IN
  Ok(Primitive(
       TypeProp(Lit.frame)
       \o << Prop("id", attr(attrs, "id")),
             Prop("name", OrElse(attr(attrs, "name"), Str(Lit.StatNumber))),
             Prop("x", Coalesce(parseNumber(attr(attrs, "x")), Num(0))),
             Prop("y", Coalesce(parseNumber(attr(attrs, "y")), Num(0))),
             Prop("layoutMode", Str(Lit.vertical)),
             Prop("gap", Num(8)) >>,
       TRUE,
       << GeneratedText(OrElse(attr(attrs, "value"), Str(<<"0">>)), 64, TRUE, 700, Lit.blue),
          GeneratedText(OrElse(attr(attrs, "label"), Str(<< >>)), 18, TRUE, 400, Lit.grey) >>))

\* ------------------------------------------------------------------------
\* JSON.parse, for the texts the items attribute of the explored inputs can
\* hold: a scalar (integer, string without escapes, true, false, null) or a
\* flat array of scalars.  Result: [ok, isArray, elems, next]
\* ------------------------------------------------------------------------
RECURSIVE skipJsonWs(_, _)
skipJsonWs(s, i) == IF At(s, i) \in TrimSet THEN skipJsonWs(s, i + 1) ELSE i

RECURSIVE scanDigits(_, _)
scanDigits(s, i) == IF IsDigit(At(s, i)) THEN scanDigits(s, i + 1) ELSE i

RECURSIVE scanJsonString(_, _)
scanJsonString(s, i) ==
  IF At(s, i) \in {EOF, "\"", "\\", "\n", "\t", "\r"} THEN i ELSE scanJsonString(s, i + 1)

JsonFail == [ok |-> FALSE, val |-> Undefined, next |-> 0]

\* one scalar at position i (after white space)
jsonScalar(s, i) ==
  LET ch == At(s, i) IN
  IF ch = "\""
  THEN LET j == scanJsonString(s, i + 1) IN
       IF At(s, j) = "\"" THEN [ok |-> TRUE, val |-> Str(Slice(s, i + 1, j)), next |-> j + 1]
       ELSE JsonFail
  ELSE IF ch = "-" \/ IsDigit(ch)
  THEN LET d0 == IF ch = "-" THEN i + 1 ELSE i
           j  == scanDigits(s, d0)
       IN IF j = d0 \/ (At(s, d0) = "0" /\ j > d0 + 1) THEN JsonFail
          ELSE [ok |-> TRUE,
                val |-> Num(IF ch = "-" THEN 0 - DigitsValue(Slice(s, d0, j), 0)
                            ELSE DigitsValue(Slice(s, d0, j), 0)),
                next |-> j]
  ELSE IF Slice(s, i, i + 4) = Lit.true THEN [ok |-> TRUE, val |-> Bool(TRUE), next |-> i + 4]
  ELSE IF Slice(s, i, i + 5) = Lit.false THEN [ok |-> TRUE, val |-> Bool(FALSE), next |-> i + 5]
  ELSE IF Slice(s, i, i + 4) = <<"n", "u", "l", "l">>
  THEN [ok |-> TRUE, val |-> Null, next |-> i + 4]
  ELSE JsonFail

\* the elements of an array after '[' or ','
RECURSIVE jsonElements(_, _, _)
jsonElements(s, i, acc) ==
  LET e == jsonScalar(s, skipJsonWs(s, i)) IN
  IF ~e.ok THEN [ok |-> FALSE, elems |-> << >>, next |-> 0]
  ELSE LET j == skipJsonWs(s, e.next) IN
       IF At(s, j) = "," THEN jsonElements(s, j + 1, Append(acc, e.val))
       ELSE IF At(s, j) = "]" THEN [ok |-> TRUE, elems |-> Append(acc, e.val), next |-> j + 1]
       ELSE [ok |-> FALSE, elems |-> << >>, next |-> 0]

JSONparse(s) ==
  LET i == skipJsonWs(s, 0) IN
  IF At(s, i) = "["
  THEN LET j == skipJsonWs(s, i + 1)
           a == IF At(s, j) = "]" THEN [ok |-> TRUE, elems |-> << >>, next |-> j + 1]
                ELSE jsonElements(s, i + 1, << >>)
       IN [ok |-> a.ok /\ skipJsonWs(s, a.next) = Len(s), isArray |-> TRUE,
           elems |-> a.elems]
  ELSE LET v == jsonScalar(s, i) IN
       [ok |-> v.ok /\ skipJsonWs(s, v.next) = Len(s), isArray |-> FALSE, elems |-> << >>]

\* str.split(',')
RECURSIVE splitComma(_, _)
splitComma(s, cur) ==
  IF s = << >> THEN <<cur>>
  ELSE IF Head(s) = "," THEN <<cur>> \o splitComma(Tail(s), << >>)
  ELSE splitComma(Tail(s), Append(cur, Head(s)))

\* the items of a BulletList (lines 987-1014).  notArray: `items` ends up a
\* value without a map method, so items.map throws a TypeError
\* line 995: attrs.items.split(',').map(s => s.trim())
trimmedParts(split) ==
  [notArray |-> FALSE, items |-> [i \in DOMAIN split |-> Str(Trim(split[i]))]]

\* lines 990-996: the value JSON.parse returned, or the split in the catch
jsonOrSplit(raw, json) ==
  IF json.ok THEN [notArray |-> ~json.isArray, items |-> json.elems]
  ELSE trimmedParts(splitComma(raw.s, << >>))

\* line 992: attrs.items.replace(/'/g, '"')
replaceQuotes(s) == [i \in DOMAIN s |-> IF s[i] = "'" THEN "\"" ELSE s[i]]

\* lines 988-997
itemsFromAttr(raw) ==
  IF ~Truthy(raw) THEN [notArray |-> FALSE, items |-> << >>]
  ELSE jsonOrSplit(raw, JSONparse(replaceQuotes(raw.s)))

\* lines 1005-1010: the text of one child Text element
childText(c) ==
  IF SelectSeq(c.el.children, IsTextChild) # << >>
  THEN Str(Head(SelectSeq(c.el.children, IsTextChild)).text)
  ELSE OrElse(attr(c.el.attributes, "text"), Str(<< >>))

\* lines 1000-1010
childTexts(element) ==
  LET isTextElem(c) == ~c.isText /\ toLowerCase(c.el.tag) = Lit.text
      textElems     == SelectSeq(element.children, isTextElem)
  IN [i \in DOMAIN textElems |-> childText(textElems[i])]

\* lines 1012-1014: child texts replace the items of the attribute
chosenItems(texts, fromAttr) ==
  IF Len(texts) > 0 THEN [notArray |-> FALSE, items |-> texts] ELSE fromAttr

bulletItems(element) ==
  chosenItems(childTexts(element), itemsFromAttr(attr(element.attributes, "items")))

BulletRow(item) ==
  Primitive(TypeProp(Lit.frame)
            \o << Prop("layoutMode", Str(Lit.horizontal)), Prop("gap", Num(12)) >>,
            TRUE,
            << GeneratedText(Str(Lit.bullet), 18, FALSE, 0, Lit.blue),
               GeneratedText(item, 18, FALSE, 0, Lit.ink) >>)

\* lines 1016-1045: the frame returned for the items its
bulletFrame(attrs, its) ==
  IF its.notArray THEN Thrown(TypeError("items.map is not a function"))
  ELSE Ok(Primitive(
            TypeProp(Lit.frame)
            \o << Prop("id", attr(attrs, "id")),
                  Prop("name", OrElse(attr(attrs, "name"), Str(Lit.BulletList))),
                  Prop("x", Coalesce(parseNumber(attr(attrs, "x")), Num(80))),
                  Prop("y", Coalesce(parseNumber(attr(attrs, "y")), Num(180))),
                  Prop("layoutMode", Str(Lit.vertical)),
                  Prop("gap", Num(16)) >>,
            TRUE, [i \in DOMAIN its.items |-> BulletRow(its.items[i])]))

parseBulletList(element) == bulletFrame(element.attributes, bulletItems(element))

\* String(level) for the default heading name `Heading${level}`
RECURSIVE NatString(_)
NatString(n) ==
  IF n < 10 THEN <<Digits[n + 1]>> ELSE NatString(n \div 10) \o <<Digits[(n % 10) + 1]>>

NumString(n) == IF n < 0 THEN <<"-">> \o NatString(0 - n) ELSE NatString(n)

parseHeading(element) ==
  LET attrs == element.attributes
      level == Coalesce(parseNumber(attr(attrs, "level")), Num(2)).n
      size  == CASE level = 1 -> 48 [] level = 2 -> 32 [] level = 3 -> 24 [] OTHER -> 32
      wgt   == CASE level = 1 -> 700 [] OTHER -> 600
  IN Ok(Primitive(
          TypeProp(Lit.text)
          \o << Prop("id", attr(attrs, "id")),
                Prop("name", OrElse(attr(attrs, "name"),
                                    Str(Lit.Heading \o NumString(level)))),
                Prop("x", parseNumber(attr(attrs, "x"))),
                Prop("y", parseNumber(attr(attrs, "y"))),
                Prop("text", textContentOf(element)),
                Prop("fontFamily", OrElse(attr(attrs, "fontFamily"), Str(Lit.Inter))),
                Prop("fontSize", Num(size)),
                Prop("fontWeight", Num(wgt)),
                Prop("fill", OrElse(attr(attrs, "fill"), Str(Lit.ink))) >>,
          FALSE, << >>))

parseParagraph(element) ==
  LET attrs == element.attributes IN
  Ok(Primitive(
       TypeProp(Lit.text)
       \o << Prop("id", attr(attrs, "id")),
             Prop("name", OrElse(attr(attrs, "name"), Str(Lit.Paragraph))),
             Prop("x", parseNumber(attr(attrs, "x"))),
             Prop("y", parseNumber(attr(attrs, "y"))),
             Prop("width", parseSizeValue(attr(attrs, "width"))),
             Prop("text", textContentOf(element)),
             Prop("fontFamily", OrElse(attr(attrs, "fontFamily"), Str(Lit.Inter))),
             Prop("fontSize", Coalesce(parseNumber(attr(attrs, "fontSize")), Num(18))),
             Prop("fontWeight", Coalesce(parseNumber(attr(attrs, "fontWeight")), Num(400))),
             Prop("fill", OrElse(attr(attrs, "fill"), Str(Lit.ink))) >>,
       FALSE, << >>))

elementToPrimitive(element) ==
  LET tag == toLowerCase(element.tag) IN
  CASE tag = Lit.frame      -> parseFrame(element)
    [] tag = Lit.text       -> parseText(element)
    [] tag = Lit.rectangle  -> parseRectangle(element)
    [] tag = Lit.ellipse    -> parseEllipse(element)
    [] tag = Lit.vector     -> parseVector(element)
    [] tag = Lit.image      -> parseImage(element)
    [] tag = Lit.group      -> parseGroup(element)
    [] tag = Lit.slide      -> parseSlide(element)
    [] tag = Lit.slidetitle -> parseSlideTitle(element)
    [] tag = Lit.card       -> parseCard(element)
    [] tag = Lit.statnumber -> parseStatNumber(element)
    [] tag = Lit.bulletlist -> parseBulletList(element)
    [] tag = Lit.heading    -> parseHeading(element)
    [] tag = Lit.paragraph  -> parseParagraph(element)
    [] OTHER ->
         Thrown(ParseError("Unknown element type: <%1>. Valid types are: %2",
                           <<element.tag, <<validTypes>>>>, NoPos, NoPos, << >>, << >>,
                           NoPos))


\* ------------------------------------------------------------------------
\* parseDSL and validateDSL
\* ------------------------------------------------------------------------
\* Unknown-attribute warnings (lines 436-588)
\* ------------------------------------------------------------------------
BASE_ATTRS ==
  {"id", "name", "visible", "opacity", "x", "y", "width", "height", "rotation"}

KNOWN_ATTRIBUTES ==
  [frame |-> BASE_ATTRS \cup
       {"fill", "stroke", "strokeWeight", "cornerRadius", "layoutMode", "gap",
        "itemSpacing", "padding", "paddingTop", "paddingRight", "paddingBottom",
        "paddingLeft", "primaryAxisAlign", "counterAxisAlign", "primaryAxisSizing",
        "counterAxisSizing", "layoutWrap", "clipsContent"},
   text |-> BASE_ATTRS \cup
       {"text", "fontFamily", "fontSize", "fontWeight", "fontStyle", "textAlign",
        "textAlignVertical", "fill", "lineHeight", "letterSpacing", "textAutoResize",
        "textDecoration", "textCase", "maxLines", "stroke", "strokeWeight"},
   rectangle |-> BASE_ATTRS \cup {"fill", "stroke", "strokeWeight", "cornerRadius"},
   ellipse |-> BASE_ATTRS \cup {"fill", "stroke", "strokeWeight"},
   vector |-> BASE_ATTRS \cup {"path", "svg", "fill", "stroke", "strokeWeight"},
   image |-> BASE_ATTRS \cup {"imageRef", "src", "scaleMode", "cornerRadius"},
   group |-> {"id", "name", "visible", "opacity", "x", "y"},
   slide |-> {"id", "name", "x", "y", "fill", "background"},
   slidetitle |-> {"id", "name", "x", "y", "text", "fontFamily", "fontSize",
                   "fontWeight", "fill", "color"},
   card |-> {"id", "name", "x", "y", "width", "height", "fill", "background",
             "cornerRadius", "padding", "gap"},
   statnumber |-> {"id", "name", "x", "y", "value", "label"},
   bulletlist |-> {"id", "name", "x", "y", "items"},
   heading |-> {"id", "name", "x", "y", "text", "fontFamily", "fontSize",
                "fontWeight", "fill", "level"},
   paragraph |-> {"id", "name", "x", "y", "width", "text", "fontFamily", "fontSize",
                  "fontWeight", "fill"}]

\* known.has(attr)
knownHas(known, name) == \E k \in known : KeyChars[k] = name

ParseWarning(element, attribute) ==
  [type |-> "unknown-attribute", element |-> element.tag, attribute |-> attribute]

\* the warnings pushed for the attributes of one element (lines 577-587)
unknownAttributes(element, known) ==
  LET unknown == SelectSeq(element.attributes, LAMBDA a : ~knownHas(known, a.name))
  IN [i \in DOMAIN unknown |-> ParseWarning(element, unknown[i].name)]

checkUnknownAttributes_silent(element, warnings) == warnings

\* checkUnknownAttributes (lines 568-588), called with a warnings array:
\* the array after the call
checkUnknownAttributes(element, warnings) ==
  IF \E t \in DOMAIN KNOWN_ATTRIBUTES : Lit[t] = toLowerCase(element.tag)
  THEN warnings \o unknownAttributes(element,
         KNOWN_ATTRIBUTES[CHOOSE t \in DOMAIN KNOWN_ATTRIBUTES :
                            Lit[t] = toLowerCase(element.tag)])
  ELSE warnings

\* the elements whose conversion converts their element children in turn
\* (parseFrame 715, parseGroup 852, parseSlide 881, parseCard 940)
mapsChildren(element) ==
  toLowerCase(element.tag) \in {Lit.frame, Lit.group, Lit.slide, Lit.card}

\* the warnings array after elementToPrimitive(element, warnings) has
\* returned or thrown
RECURSIVE warningsOf(_, _)
RECURSIVE childWarnings(_, _)
childWarnings(elems, warnings) ==
  IF elems = << >> THEN warnings
  ELSE IF elementToPrimitive(Head(elems).el).kind # "ok"
  THEN warningsOf(Head(elems).el, warnings)
  ELSE childWarnings(Tail(elems), warningsOf(Head(elems).el, warnings))

warningsOf(element, warnings) ==
  IF mapsChildren(element)
  THEN childWarnings(ElementChildren(element.children),
                     checkUnknownAttributes(element, warnings))
  ELSE checkUnknownAttributes(element, warnings)

\* the caller's warnings array after parseDSL(xml, { warnings }) (line 120)
rootWarnings(e) == IF e.kind = "elem" THEN warningsOf(e.el, << >>) ELSE << >>

parseWarnings(xml) ==
  rootWarnings(parseElement(Trim(xml),
                            skipWhitespaceAndComments(Trim(xml), ParseState(0, 1, 1))))

\* ------------------------------------------------------------------------
\* parseDSL (lines 98-121).  Result kinds: "ok", "error", "hang"
\* lines 109-120: the root element e read from the trimmed input inp
rootPrimitive(inp, e) ==
  IF e.kind = "null"
  THEN Thrown(ParseError("Empty or invalid XML - expected element starting with \"<\"",
                         << >>, 1, 1, getErrorContext(inp, 0),
                         IF At(inp, 0) = EOF THEN <<"empty string">> ELSE <<At(inp, 0)>>,
                         0))
  ELSE IF e.kind = "elem" THEN elementToPrimitive(e.el)
  ELSE e

\* lines 99-107: the parse state over the trimmed input, and the root element
parseRoot(inp) ==
  rootPrimitive(inp, parseElement(inp, skipWhitespaceAndComments(inp, ParseState(0, 1, 1))))

parseDSL(xml) == parseRoot(Trim(xml))

\* ------------------------------------------------------------------------
\* parseDSLMultiple (lines 126-152).  Result kinds: "ok" (with the list of
\* primitives), "error", "hang"
\* ------------------------------------------------------------------------
RECURSIVE multipleLoop(_, _, _)

pushPrimitive_inFront(primitives, prim) == <<prim>> \o primitives

\* primitives.push(elementToPrimitive(element, _options.warnings))  (line 145)
pushPrimitive(primitives, prim) == Append(primitives, prim)

\* line 145 and 148: the element e converted to r, then the next iteration
multiplePush(inp, e, primitives, r) ==
  IF r.kind # "ok" THEN r
  ELSE multipleLoop(inp, skipWhitespaceAndComments(inp, e.st),
                    pushPrimitive(primitives, r.prim))

\* lines 143-148: parseElement has returned e at state st.  When it returned
\* null the state is unchanged, the second skip finds nothing to skip, and
\* the iteration repeats without end
multipleElement(inp, st, primitives, e) ==
  IF e.kind = "null" THEN Hang
  ELSE IF e.kind = "elem" THEN multiplePush(inp, e, primitives, elementToPrimitive(e.el))
  ELSE e

\* lines 141-143, after the first skip of the iteration
multipleSkipped(inp, st, primitives) ==
  IF st.pos >= Len(inp) THEN [kind |-> "ok", prims |-> primitives]
  ELSE multipleElement(inp, st, primitives, parseElement(inp, st))

\* the while loop (lines 139-149)
multipleLoop(inp, st, primitives) ==
  IF st.pos >= Len(inp) THEN [kind |-> "ok", prims |-> primitives]
  ELSE multipleSkipped(inp, skipWhitespaceAndComments(inp, st), primitives)

parseDSLMultiple(xml) == multipleLoop(Trim(xml), ParseState(0, 1, 1), << >>)

NoPrimitive == Primitive(<< >>, FALSE, << >>)
NoError == ParseError("", << >>, NoPos, NoPos, << >>, << >>, NoPos)

\* the composed message string of an error (message, location, found token
\* and context, lines 49-54); for a non-ParseError, its message
Message(err) ==
  [template |-> err.template, args |-> err.args, line |-> err.line,
   column |-> err.column, found |-> err.found, context |-> err.context]

NoMessage == Message(NoError)

\* what a call of validateDSL hands its caller: a returned ValidationResult
\* (completion "return") or an exception that propagates (completion "throw")
ValidationResult(success, primitive, error, line, column, context) ==
  [completion |-> "return", success |-> success, primitive |-> primitive,
   error |-> error, line |-> line, column |-> column, context |-> context]

Propagates(err) ==
  [completion |-> "throw", success |-> FALSE, primitive |-> NoPrimitive,
   error |-> Message(err), line |-> NoPos, column |-> NoPos, context |-> << >>]

\* the call does not return: parseDSL never completes
Diverges ==
  [completion |-> "hang", success |-> FALSE, primitive |-> NoPrimitive,
   error |-> NoMessage, line |-> NoPos, column |-> NoPos, context |-> << >>]

tryParse_catchingOnlyParseError(r) ==
  IF r.kind = "hang" THEN Diverges
  ELSE IF r.kind = "ok"
  THEN ValidationResult(TRUE, r.prim, NoMessage, NoPos, NoPos, << >>)
  ELSE IF r.err.class = "ParseError"
  THEN ValidationResult(FALSE, NoPrimitive, Message(r.err),
                        r.err.line, r.err.column, r.err.context)
  ELSE Propagates(r.err)

\* the try / catch of validateDSL (lines 1442-1459) around the outcome r of
\* parseDSL
tryParse(r) ==
  IF r.kind = "hang" THEN Diverges
  ELSE IF r.kind = "ok"
  THEN ValidationResult(TRUE, r.prim, NoMessage, NoPos, NoPos, << >>)
  ELSE IF r.err.class = "ParseError"
  THEN ValidationResult(FALSE, NoPrimitive, Message(r.err),
                        r.err.line, r.err.column, r.err.context)
  ELSE ValidationResult(FALSE, NoPrimitive, Message(r.err), NoPos, NoPos, << >>)

\* validateDSL (lines 1438-1460)
validateDSL(xml) == tryParse(parseDSL(xml))

\* ------------------------------------------------------------------------
\* Serializer
\* ------------------------------------------------------------------------
escapeChar(ch) ==
  CASE ch = "&"  -> Lit.amp
    [] ch = "<"  -> Lit.lt
    [] ch = ">"  -> Lit.gt
    [] ch = "\"" -> Lit.quot
    [] OTHER     -> <<ch>>

escapeXml(str) == Concat([i \in DOMAIN str |-> escapeChar(str[i])])

getTagName(type) ==
  IF type = << >> THEN << >> ELSE <<UpperChar(Head(type))>> \o Tail(type)

\* null when the value has no literal form
serializeAttributeValue(value) ==
  CASE value.t = "string"  -> <<"\"">> \o escapeXml(value.s) \o <<"\"">>
    [] value.t = "number"  -> <<"{">> \o NumString(value.n) \o <<"}">>
    [] value.t = "boolean" -> <<"{">> \o (IF value.n = 1 THEN Lit.true ELSE Lit.false) \o <<"}">>
    [] OTHER               -> << >>

RECURSIVE serializeProps(_)
serializeProps(props) ==
  IF props = << >> THEN << >>
  ELSE LET p == Head(props) IN
       IF p.key \in {"type", "children", "text"} \/ p.val.t \in {"undefined", "null"}
       THEN serializeProps(Tail(props))
       ELSE <<" ">> \o KeyChars[p.key] \o <<"=">> \o serializeAttributeValue(p.val)
            \o serializeProps(Tail(props))

serializeAttributes(primitive) == serializeProps(primitive.props)

getChildren(primitive) == IF primitive.hasChildren THEN primitive.children ELSE << >>

getTextContent(primitive) ==
  IF Get(primitive, "type") = Str(Lit.text) /\ HasProp(primitive, "text")
  THEN Get(primitive, "text")
  ELSE Undefined

InlineTextLimit == 60

RECURSIVE serializeDSL(_, _)
RECURSIVE serializeChildren(_, _)

\* children.map(child => serializeDSL(child, indent + 1)).join('\n')
serializeChildren(children, indent) ==
  IF children = << >> THEN << >>
  ELSE serializeDSL(Head(children), indent)
       \o (IF Len(children) > 1 THEN <<"\n">> ELSE << >>)
       \o serializeChildren(Tail(children), indent)

serializeDSL(primitive, indent) ==
  LET spaces      == Repeat(" ", 2 * indent)
      tag         == getTagName(Get(primitive, "type").s)
      attrs       == serializeAttributes(primitive)
      children    == getChildren(primitive)
      textContent == getTextContent(primitive)
      open        == spaces \o <<"<">> \o tag \o attrs
      close       == <<"<", "/">> \o tag \o <<">">>
  IN IF children = << >> /\ ~Truthy(textContent)
     THEN open \o <<" ", "/", ">">>
     ELSE IF children = << >>
     THEN IF Len(textContent.s) < InlineTextLimit /\ ~Includes(textContent.s, "\n")
          THEN open \o <<">">> \o escapeXml(textContent.s) \o close
          ELSE open \o <<">", "\n">> \o spaces \o <<" ", " ">> \o escapeXml(textContent.s)
               \o <<"\n">> \o spaces \o close
     ELSE open \o <<">", "\n">> \o serializeChildren(children, indent + 1)
          \o <<"\n">> \o spaces \o close

\* ------------------------------------------------------------------------
\* Explored inputs: a document is a short sequence of chunks
\* ------------------------------------------------------------------------
Chunk(k, tag, s) == [k |-> k, tag |-> tag, s |-> s]

T_Frame == <<"F", "r", "a", "m", "e">>
T_Text  == <<"T", "e", "x", "t">>
T_Group == <<"G", "r", "o", "u", "p">>
T_B     == <<"B">>
T_BulletList == Lit.BulletList

OpenTag(tag)  == Chunk("open", tag, <<"<">> \o tag \o <<">">>)
CloseTag(tag) == Chunk("close", tag, <<"<", "/">> \o tag \o <<">">>)
SelfTag(tag)  == Chunk("self", tag, <<"<">> \o tag \o <<"/", ">">>)
TextChunk(s)  == Chunk("text", << >>, s)
Piece(k, s)   == Chunk(k, << >>, s)

ChunkSet ==
  { OpenTag(T_Frame), OpenTag(T_Text),
    CloseTag(T_Frame), CloseTag(T_Text), CloseTag(Lit.text),
    SelfTag(T_Group), SelfTag(T_B),
    Chunk("self", T_BulletList,
          <<"<">> \o T_BulletList \o <<" ">> \o KeyChars.items
          \o <<"=", "\"", "5", "\"", "/", ">">>),
    TextChunk(<<"a", "&", "b">>), TextChunk(<<"x", "\n", "y">>),
    Piece("ws", <<"\n">>),
    Chunk("openpart", T_Frame, <<"<">> \o T_Frame),
    Piece("attrq", <<" ", "i", "d", "=", "\"", "a">>),
    Piece("quote", <<"\"">>),
    Piece("attrb", <<" ", "x", "=", "{", "1">>),
    Piece("brace", <<"}">>),
    Piece("gt", <<">">>),
    Piece("junk", <<"!">>) }

Inputs == UNION { [1..n -> ChunkSet] : n \in 1..MaxChunks }

TextOf(cs) == Concat([i \in DOMAIN cs |-> cs[i].s])

\* ------------------------------------------------------------------------
\* Inline Formatter: the styled runs of a Text element's content.  The
\* parser of the repository's tests and renderer produces `segments`; the
\* parser source at hand does not, so this part follows the specification
\* (section "Inline Formatter") and the tests of parser.test.ts 478-645.
\* ------------------------------------------------------------------------
SpanKeys ==
  [fontFamily |-> <<"f", "o", "n", "t", "F", "a", "m", "i", "l", "y">>,
   fontSize |-> <<"f", "o", "n", "t", "S", "i", "z", "e">>,
   fontWeight |-> <<"f", "o", "n", "t", "W", "e", "i", "g", "h", "t">>,
   fontStyle |-> <<"f", "o", "n", "t", "S", "t", "y", "l", "e">>,
   fill |-> <<"f", "i", "l", "l">>,
   textDecoration |-> <<"t", "e", "x", "t", "D", "e", "c", "o", "r", "a", "t", "i", "o", "n">>,
   letterSpacing |-> <<"l", "e", "t", "t", "e", "r", "S", "p", "a", "c", "i", "n", "g">>]

StyleKeys == DOMAIN SpanKeys

\* a set of style overrides; Undefined where nothing is overridden
NoStyle == [k \in StyleKeys |-> Undefined]

spanAttr(attributes, k) ==
  IF HasAttr(attributes, SpanKeys[k]) THEN Str(AttrOf(attributes, SpanKeys[k])) ELSE Undefined

\* the overrides one inline tag contributes
tagStyle(tag, attributes) ==
  CASE tag = <<"B">> -> [NoStyle EXCEPT !["fontWeight"] = Num(700)]
    [] tag = <<"I">> -> [NoStyle EXCEPT !["fontStyle"] = Str(<<"i", "t", "a", "l", "i", "c">>)]
    [] tag = <<"U">> ->
         [NoStyle EXCEPT !["textDecoration"] =
            Str(<<"u", "n", "d", "e", "r", "l", "i", "n", "e">>)]
    [] tag = <<"S">> ->
         [NoStyle EXCEPT !["textDecoration"] =
            Str(<<"s", "t", "r", "i", "k", "e", "t", "h", "r", "o", "u", "g", "h">>)]
    [] tag = <<"S", "p", "a", "n">> ->
         [k \in StyleKeys |->
            IF k \in {"fontSize", "fontWeight", "letterSpacing"}
            THEN parseNumber(spanAttr(attributes, k))
            ELSE spanAttr(attributes, k)]
    [] OTHER -> NoStyle

composeStyle_innermostOnly(outer, inner) == inner

\* overrides compose when inline tags nest; the inner tag wins a conflict
composeStyle(outer, inner) == [k \in StyleKeys |-> Coalesce(inner[k], outer[k])]

Run(text, style) == [text |-> text, style |-> style]

\* the state after a closing tag </name ... >
RECURSIVE skipToGt(_, _)
skipToGt(inp, st) ==
  IF st.pos >= Len(inp) THEN st
  ELSE IF At(inp, st.pos) = ">" THEN Advance(st, 1)
  ELSE skipToGt(inp, Advance(st, 1))

RECURSIVE inlineRuns(_, _, _, _)

\* the content after the closing tag of an inline element goes on in the
\* style that was active before it
afterInline(inp, style, inner) == inlineRuns(inp, inner.st, style, inner.runs)

\* an inline tag whose attribute list a has been read
openInline(inp, style, runs, tag, a) ==
  IF a.kind = "self" THEN inlineRuns(inp, a.st, style, runs)
  ELSE IF a.kind = "children"
  THEN afterInline(inp, style,
                   inlineRuns(inp, a.st, composeStyle(style, tagStyle(tag, a.attributes)),
                              runs))
  ELSE [st |-> ParseState(Len(inp), 1, 1), runs |-> runs]

\* a text run up to the next tag, kept as written
textRun(inp, st, style, runs, st2) ==
  inlineRuns(inp, st2, style, Append(runs, Run(Slice(inp, st.pos, st2.pos), style)))

\* walk of the content from st: the runs in document order, up to the
\* closing tag of the enclosing element (or the end of the content)
inlineRuns(inp, st, style, runs) ==
  IF st.pos >= Len(inp) THEN [st |-> st, runs |-> runs]
  ELSE IF Slice(inp, st.pos, st.pos + 2) = <<"<", "/">>
  THEN [st |-> skipToGt(inp, st), runs |-> runs]
  ELSE IF At(inp, st.pos) = "<"
  THEN openInline(inp, style, runs,
                  Slice(inp, st.pos + 1, scanName(inp, Advance(st, 1)).pos),
                  attrLoop(inp, scanName(inp, Advance(st, 1)), << >>))
  ELSE textRun(inp, st, style, runs, scanText(inp, st))

\* an inline tag with empty content contributes no segment
nonEmptyRuns(runs) == SelectSeq(runs, LAMBDA r : r.text # << >>)

\* leading white space of the whole content is removed once
RECURSIVE trimLeading(_)
trimLeading(runs) ==
  IF runs = << >> THEN runs
  ELSE IF TrimStart(Head(runs).text) = << >> THEN trimLeading(Tail(runs))
  ELSE <<Run(TrimStart(Head(runs).text), Head(runs).style)>> \o Tail(runs)

\* trailing white space of the whole content is removed once
RECURSIVE trimTrailing(_)
trimTrailing(runs) ==
  IF runs = << >> THEN runs
  ELSE IF TrimEnd(runs[Len(runs)].text) = << >>
  THEN trimTrailing(SubSeq(runs, 1, Len(runs) - 1))
  ELSE SubSeq(runs, 1, Len(runs) - 1)
       \o <<Run(TrimEnd(runs[Len(runs)].text), runs[Len(runs)].style)>>

trimOuter_everyRun(runs) ==
  nonEmptyRuns([i \in DOMAIN runs |-> Run(Trim(runs[i].text), runs[i].style)])

\* the segments of the runs of a content
trimOuter(runs) == trimTrailing(trimLeading(nonEmptyRuns(runs)))

\* whether the content holds an inline tag anywhere
hasInlineTag(content) == Includes(content, "<")

\* the character data of a content: its text with every tag left out
RECURSIVE characterData(_, _)
characterData(content, inTag) ==
  IF content = << >> THEN << >>
  ELSE IF inTag
  THEN characterData(Tail(content), Head(content) # ">")
  ELSE IF Head(content) = "<" THEN characterData(Tail(content), TRUE)
  ELSE <<Head(content)>> \o characterData(Tail(content), FALSE)

segmentList_always(content, segments) ==
  [hasSegments |-> TRUE, segments |-> segments]

\* no segment list at all when the content has no inline tag
segmentList(content, segments) ==
  IF hasInlineTag(content)
  THEN [hasSegments |-> TRUE, segments |-> segments]
  ELSE [hasSegments |-> FALSE, segments |-> << >>]

\* the Text node of a content: its full text and its segment list
formatInline(content) ==
  [text |-> Trim(characterData(content, FALSE)),
   list |-> segmentList(content,
                        trimOuter(inlineRuns(content, ParseState(0, 1, 1), NoStyle,
                                             << >>).runs))]

\* ------------------------------------------------------------------------
\* Node objects on a heap.  An address is an index of the heap; 0 is null.
\* A node object is a Primitive whose children are addresses.
\* ------------------------------------------------------------------------
NullRef == 0

\* a freshly created object
Alloc(h, obj) == [heap |-> Append(h, obj), ref |-> Len(h) + 1]

\* the one element of a singleton: { f(v) : v \in {e} } has e evaluated
\* once, as a const of the source is
Only(S) == CHOOSE x \in S : TRUE

\* one key assigned: an existing key keeps its place, a new key is appended
assignProp(props, p) ==
  IF \E i \in DOMAIN props : props[i].key = p.key
  THEN [i \in DOMAIN props |-> IF props[i].key = p.key THEN p ELSE props[i]] \o << >>
  ELSE Append(props, p)

\* { ...a, ...b } on property lists: b's values win, new keys are appended
RECURSIVE assignProps(_, _)
assignProps(props, more) ==
  IF more = << >> THEN props
  ELSE Only({ assignProps(assigned, Tail(more)) :
                assigned \in {assignProp(props, Head(more))} })

spread(a, b) ==
  Primitive(assignProps(a.props, b.props),
            a.hasChildren \/ b.hasChildren,
            IF b.hasChildren THEN b.children ELSE a.children)

childrenOf(h, ref) == getChildren(h[ref])

idIs(obj, id) == Get(obj, "id") = Str(id)

\* findNodeById (lines 1237-1249): the address found, or null
RECURSIVE findNodeById(_, _, _)
RECURSIVE findInChildren(_, _, _)
findInChildren_lastFirst(h, children, id) ==
  IF children = << >> THEN NullRef
  ELSE LET found == findNodeById(h, children[Len(children)], id) IN
       IF found # NullRef THEN found
       ELSE findInChildren(h, SubSeq(children, 1, Len(children) - 1), id)

findInChildren(h, children, id) ==
  IF children = << >> THEN NullRef
  ELSE LET found == findNodeById(h, Head(children), id) IN
       IF found # NullRef THEN found ELSE findInChildren(h, Tail(children), id)

findNodeById(h, root_, id) ==
  IF idIs(h[root_], id) THEN root_ ELSE findInChildren(h, childrenOf(h, root_), id)

\* newChildren.some((child, i) => child !== children[i])  (lines 1299, 1328)
hasChanges_always(newChildren, children) == TRUE

hasChanges(newChildren, children) ==
  \E i \in DOMAIN children : newChildren[i] # children[i]

\* updateNodeById (lines 1280-1305); updates is an object value
RECURSIVE updateNodeById(_, _, _, _)
RECURSIVE updateChildren(_, _, _, _, _)

updateChildren_cloning(h, children, id, updates, acc) ==
  IF children = << >> THEN [heap |-> h, refs |-> acc]
  ELSE LET r == updateNodeById(h, Head(children), id, updates)
           c == Alloc(r.heap, r.heap[r.ref])
       IN updateChildren(c.heap, Tail(children), id, updates, Append(acc, c.ref))

\* children.map(child => updateNodeById(child, id, updates))
updateChildren(h, children, id, updates, acc) ==
  IF children = << >> THEN [heap |-> h, refs |-> acc]
  ELSE LET r == updateNodeById(h, Head(children), id, updates) IN
       updateChildren(r.heap, Tail(children), id, updates, Append(acc, r.ref))

updateNodeById(h, root_, id, updates) ==
  IF idIs(h[root_], id) THEN Alloc(h, spread(h[root_], updates))
  ELSE
  LET children == childrenOf(h, root_) IN
  IF Len(children) = 0 THEN [heap |-> h, ref |-> root_]
  ELSE
  LET m == updateChildren(h, children, id, updates, << >>) IN
  IF ~hasChanges(m.refs, children) THEN [heap |-> m.heap, ref |-> root_]
  ELSE Alloc(m.heap, Primitive(h[root_].props, TRUE, m.refs))

\* replaceNodeById (lines 1310-1334); replacement is an address
RECURSIVE replaceNodeById(_, _, _, _)
RECURSIVE replaceChildren(_, _, _, _, _)

replaceChildren(h, children, id, replacement, acc) ==
  IF children = << >> THEN [heap |-> h, refs |-> acc]
  ELSE LET r == replaceNodeById(h, Head(children), id, replacement) IN
       replaceChildren(r.heap, Tail(children), id, replacement, Append(acc, r.ref))

replaceNodeById(h, root_, id, replacement) ==
  IF idIs(h[root_], id) THEN [heap |-> h, ref |-> replacement]
  ELSE
  LET children == childrenOf(h, root_) IN
  IF Len(children) = 0 THEN [heap |-> h, ref |-> root_]
  ELSE
  LET m == replaceChildren(h, children, id, replacement, << >>) IN
  IF ~hasChanges(m.refs, children) THEN [heap |-> m.heap, ref |-> root_]
  ELSE Alloc(m.heap, Primitive(h[root_].props, TRUE, m.refs))

\* the root test of deleteNodeById (line 1341)
isDeleteTarget_never(obj, id) == FALSE

isDeleteTarget(obj, id) == idIs(obj, id)

\* deleteNodeById (lines 1339-1372): the new root, or null for the root itself
RECURSIVE deleteNodeById(_, _, _)
RECURSIVE deleteFromChildren(_, _, _, _, _)

\* the for loop over the children (lines 1353-1365)
pushKept_inFront(newChildren, ref) ==
  IF ref # NullRef THEN <<ref>> \o newChildren ELSE newChildren

\* if (updatedChild) newChildren.push(updatedChild)  (lines 1362-1364)
pushKept(newChildren, ref) ==
  IF ref # NullRef THEN Append(newChildren, ref) ELSE newChildren

deleteFromChildren(h, children, id, newChildren, changed) ==
  IF children = << >>
  THEN [heap |-> h, refs |-> newChildren, hasChanges |-> changed]
  ELSE LET child == Head(children) IN
       IF idIs(h[child], id)
       THEN deleteFromChildren(h, Tail(children), id, newChildren, TRUE)
       ELSE LET r == deleteNodeById(h, child, id) IN
            deleteFromChildren(r.heap, Tail(children), id,
                               pushKept(newChildren, r.ref),
                               changed \/ r.ref # child)

deleteNodeById(h, root_, id) ==
  IF isDeleteTarget(h[root_], id) THEN [heap |-> h, ref |-> NullRef]
  ELSE
  LET children == childrenOf(h, root_) IN
  IF Len(children) = 0 THEN [heap |-> h, ref |-> root_]
  ELSE
  LET d == deleteFromChildren(h, children, id, << >>, FALSE) IN
  IF ~d.hasChanges THEN [heap |-> d.heap, ref |-> root_]
  ELSE Alloc(d.heap, Primitive(h[root_].props, TRUE, d.refs))

\* the loop of mergePrimitiveUpdates over Object.entries(updates)
RECURSIVE mergeEntries(_, _)
mergeEntries(props, entries) ==
  IF entries = << >> THEN props
  ELSE LET e == Head(entries) IN
       mergeEntries(
         IF e.key = "type" THEN props
         ELSE IF e.val.t = "null"
         THEN SelectSeq(props, LAMBDA p : p.key # e.key)
         ELSE assignProps(props, <<e>>),
         Tail(entries))

mergedObject(original, updates) ==
  Primitive(mergeEntries(original.props, updates.props),
            original.hasChildren \/ updates.hasChildren,
            IF updates.hasChildren THEN updates.children ELSE original.children)

mergePrimitiveUpdates_inPlace(h, original, updates) ==
  [heap |-> [h EXCEPT ![original] = mergedObject(h[original], updates)],
   ref |-> original]

\* mergePrimitiveUpdates (lines 1466-1486): a new object
mergePrimitiveUpdates(h, original, updates) ==
  Alloc(h, mergedObject(h[original], updates))

\* ------------------------------------------------------------------------
\* State
\* ------------------------------------------------------------------------
VARIABLES
  chunks,      \* the document handed to validateDSL, as chunks
  pc,          \* "ready" | "validated" | "serialized" | "reparsed" | "looping"
  result,      \* what validateDSL handed its caller for the document
  serialized,  \* serializeDSL of the parsed tree
  reparsed,    \* what validateDSL handed its caller for the serialized text
  warnings,    \* the warnings array the caller passed, if any
  batch,       \* what parseDSLMultiple handed its caller for the document
  heap,        \* the node objects
  heap0,       \* the node objects before the mutator call
  root,        \* the address of the tree's root
  replacement, \* the address of the caller's replacement subtree
  call,        \* the mutator call made: [op, id, updates]
  ret,         \* the address the call returned (NullRef for null)
  toolError,   \* the error the agent's update_node tool reported ("" if none)
  tpc,         \* "ready" | "done"
  content,     \* the content of a Text element handed to the inline formatter
  formatted,   \* the text and segment list the formatter made of it
  fpc,         \* "ready" | "done"
  snapshot,    \* slide store: the DSL text held for the slide (empty: no slide)
  toolReply,   \* what the last slide tool call returned: [tool, success, error]
  calls,       \* the number of slide tool calls made
  plugin,      \* bridge: the attached plugin socket (NoSocket for null)
  pluginReady, \* bridge: plugin:ready was received
  sockets,     \* per socket: "none" | "open" | "closed"
  requests,    \* the bridge requests issued so far, with their promises and timers
  pendingRequests, \* the three pending-request maps: map name -> key -> request
  wire,        \* result messages the plugin has sent and the server has not handled
  slidesUnderReview, \* review guard: the slides under visual review
  guardTimers, \* the slides of the pending guard-clearing timeouts, as a bag
  channel,     \* render:slide and snapshot:result messages in flight
  reviews      \* the visual reviews in progress

parserVars == <<chunks, pc, result, serialized, reparsed, warnings, batch>>
treeVars == <<heap, heap0, root, replacement, call, ret, toolError, tpc>>
inlineVars == <<content, formatted, fpc>>
storeVars == <<snapshot, toolReply, calls>>
bridgeVars == <<plugin, pluginReady, sockets, requests, pendingRequests, wire>>
reviewVars == <<slidesUnderReview, guardTimers, channel, reviews>>
appVars == <<storeVars, bridgeVars, reviewVars>>
vars == <<chunks, pc, result, serialized, reparsed, warnings, batch,
          heap, heap0, root, replacement, call, ret, toolError, tpc,
          content, formatted, fpc,
          snapshot, toolReply, calls,
          plugin, pluginReady, sockets, requests, pendingRequests, wire,
          slidesUnderReview, guardTimers, channel, reviews>>

NoBatch == [kind |-> "none", prims |-> << >>]
NoResult == ValidationResult(FALSE, NoPrimitive, NoMessage, NoPos, NoPos, << >>)
NoCall == [op |-> "none", id |-> << >>, updates |-> NoPrimitive]

ParserIdle ==
  /\ chunks = << >>
  /\ pc = "idle"
  /\ result = NoResult
  /\ serialized = << >>
  /\ reparsed = NoResult
  /\ warnings = << >>
  /\ batch = NoBatch

TreeIdle ==
  /\ heap = << >>
  /\ heap0 = << >>
  /\ root = NullRef
  /\ replacement = NullRef
  /\ call = NoCall
  /\ ret = NullRef
  /\ toolError = ""
  /\ tpc = "idle"

NoFormat == [text |-> << >>, list |-> [hasSegments |-> FALSE, segments |-> << >>]]

InlineIdle ==
  /\ content = << >>
  /\ formatted = NoFormat
  /\ fpc = "idle"

NoReply == [tool |-> "none", success |-> FALSE, error |-> ""]
NoSocket == 0

StoreIdle ==
  /\ snapshot = << >>
  /\ toolReply = NoReply
  /\ calls = 0

BridgeIdle ==
  /\ plugin = NoSocket
  /\ pluginReady = FALSE
  /\ sockets = << >>
  /\ requests = << >>
  /\ pendingRequests = << >>
  /\ wire = {}

ReviewIdle ==
  /\ slidesUnderReview = {}
  /\ guardTimers = << >>
  /\ channel = {}
  /\ reviews = << >>

AppIdle == StoreIdle /\ BridgeIdle /\ ReviewIdle

Init ==
  /\ chunks \in Inputs
  /\ pc = "ready"
  /\ result = NoResult
  /\ serialized = << >>
  /\ reparsed = NoResult
  /\ warnings = << >>
  /\ batch = NoBatch
  /\ TreeIdle
  /\ InlineIdle
  /\ AppIdle

\* a caller runs validateDSL on the document and gets the result value
Validated(v) ==
  /\ v.completion # "hang"
  /\ result' = v
  /\ pc' = "validated"
  /\ UNCHANGED <<chunks, serialized, reparsed, warnings, batch>>
  /\ UNCHANGED treeVars
  /\ UNCHANGED inlineVars
  /\ UNCHANGED appVars

Validate ==
  /\ pc = "ready"
  /\ Validated(validateDSL(TextOf(chunks)))

\* the call never returns: the attribute loop of parseElement spins
ValidateDiverges ==
  /\ pc \in {"ready", "serialized"}
  /\ validateDSL(IF pc = "ready" THEN TextOf(chunks) ELSE serialized).completion = "hang"
  /\ pc' = "looping"
  /\ UNCHANGED <<chunks, result, serialized, reparsed, warnings, batch>>
  /\ UNCHANGED treeVars
  /\ UNCHANGED inlineVars
  /\ UNCHANGED appVars

Serialize ==
  /\ pc = "validated"
  /\ result.success
  /\ serialized' = serializeDSL(result.primitive, 0)
  /\ pc' = "serialized"
  /\ UNCHANGED <<chunks, result, reparsed, warnings, batch>>
  /\ UNCHANGED treeVars
  /\ UNCHANGED inlineVars
  /\ UNCHANGED appVars

Reparsed(v) ==
  /\ v.completion # "hang"
  /\ reparsed' = v
  /\ pc' = "reparsed"
  /\ UNCHANGED <<chunks, result, serialized, warnings, batch>>
  /\ UNCHANGED treeVars
  /\ UNCHANGED inlineVars
  /\ UNCHANGED appVars

Reparse ==
  /\ pc = "serialized"
  /\ Reparsed(validateDSL(serialized))

Next == Validate \/ ValidateDiverges \/ Serialize \/ Reparse

Spec == Init /\ [][Next]_vars

\* ------------------------------------------------------------------------
\* Trees handed to the mutators: every ordered tree of at most MaxNodes
\* nodes, each node with an id of NodeIds or none, and one replacement node
\* ------------------------------------------------------------------------
Id_a == <<"a">>
Id_b == <<"b">>
Id_c == <<"c">>
NodeIds == {Id_a, Id_b}
CallIds == {Id_a, Id_b, Id_c}
IdChoices == {Str(i) : i \in NodeIds} \cup {Undefined}

Fill_white == <<"#", "f", "f", "f">>
Fill_red == <<"#", "f", "0", "0">>

\* parent vectors: node 1 is the root, the parent of node i > 1 is below i
ParentVectors(n) == { p \in [1..n -> 0..n] : p[1] = 0 /\ \A i \in 2..n : p[i] \in 1..(i - 1) }

RECURSIVE ChildList(_, _, _)
ChildList(p, n, i) ==
  IF n = 0 THEN << >>
  ELSE ChildList(p, n - 1, i) \o (IF p[n] = i THEN <<n>> ELSE << >>)

\* the node object at address i of a tree: inner nodes are frames, leaves
\* are text nodes or (leafGroup) groups with an empty children array
NodeObject(p, ids, leafGroup, i) ==
  LET kids == ChildList(p, Len(p), i) IN
  IF kids # << >>
  THEN Primitive(<<Prop("type", Str(Lit.frame)), Prop("id", ids[i]),
                   Prop("fill", Str(Fill_white))>>, TRUE, kids)
  ELSE IF leafGroup
  THEN Primitive(<<Prop("type", Str(Lit.group)), Prop("id", ids[i])>>, TRUE, << >>)
  ELSE Primitive(<<Prop("type", Str(Lit.text)), Prop("id", ids[i]),
                   Prop("text", Str(<<"t">>)), Prop("fill", Str(Fill_white))>>,
                 FALSE, << >>)

ReplacementNode ==
  Primitive(<<Prop("type", Str(Lit.rectangle)), Prop("id", Str(Id_a)),
              Prop("fill", Str(Fill_red))>>, FALSE, << >>)

\* the update objects callers pass
Patches ==
  { Primitive(<<Prop("fill", Str(Fill_red))>>, FALSE, << >>),
    Primitive(<<Prop("fill", Null)>>, FALSE, << >>),
    Primitive(<<Prop("text", Null), Prop("name", Str(<<"n">>))>>, FALSE, << >>),
    Primitive(<<Prop("type", Str(Lit.group)), Prop("id", Str(Id_c))>>, FALSE, << >>) }

InitTree ==
  /\ ParserIdle
  /\ InlineIdle
  /\ AppIdle
  /\ \E n \in 1..MaxNodes : \E p \in ParentVectors(n) :
     \E ids \in [1..n -> IdChoices] : \E leafGroup \in BOOLEAN :
       heap = [i \in 1..n |-> NodeObject(p, ids, leafGroup, i)] \o <<ReplacementNode>>
  /\ heap0 = heap
  /\ root = 1
  /\ replacement = Len(heap)
  /\ call = NoCall
  /\ ret = NullRef
  /\ toolError = ""
  /\ tpc = "ready"

Returned(r, c, err) ==
  /\ heap' = r.heap
  /\ ret' = r.ref
  /\ call' = c
  /\ toolError' = err
  /\ tpc' = "done"
  /\ UNCHANGED <<heap0, root, replacement>>
  /\ UNCHANGED parserVars
  /\ UNCHANGED inlineVars
  /\ UNCHANGED appVars

Update ==
  /\ tpc = "ready"
  /\ \E id \in CallIds, updates \in Patches :
       Returned(updateNodeById(heap, root, id, updates),
                [op |-> "update", id |-> id, updates |-> updates], "")

Replace ==
  /\ tpc = "ready"
  /\ \E id \in CallIds :
       Returned(replaceNodeById(heap, root, id, replacement),
                [op |-> "replace", id |-> id, updates |-> NoPrimitive], "")

Delete ==
  /\ tpc = "ready"
  /\ \E id \in CallIds :
       Returned(deleteNodeById(heap, root, id),
                [op |-> "delete", id |-> id, updates |-> NoPrimitive], "")

\* findNodeById called on the tree
Find ==
  /\ tpc = "ready"
  /\ \E id \in CallIds :
       Returned([heap |-> heap, ref |-> findNodeById(heap, root, id)],
                [op |-> "find", id |-> id, updates |-> NoPrimitive], "")

\* mergePrimitiveUpdates called on the node findNodeById returns
Merge ==
  /\ tpc = "ready"
  /\ \E id \in CallIds, updates \in Patches :
       /\ findNodeById(heap, root, id) # NullRef
       /\ Returned(mergePrimitiveUpdates(heap, findNodeById(heap, root, id), updates),
                   [op |-> "merge", id |-> id, updates |-> updates], "")

\* the update case of the update_node tool (part_012 lines 42-51, 80-82)
AgentUpdate ==
  /\ tpc = "ready"
  /\ \E id \in CallIds, updates \in Patches :
       LET targetNode == findNodeById(heap, root, id)
           c == [op |-> "agentUpdate", id |-> id, updates |-> updates]
       IN IF targetNode = NullRef
          THEN Returned([heap |-> heap, ref |-> root], c, "Node not found in slide")
          ELSE LET updatedNode == mergePrimitiveUpdates(heap, targetNode, updates) IN
               Returned(updateNodeById(updatedNode.heap, root, id,
                                       updatedNode.heap[updatedNode.ref]),
                        c, "")

\* the delete case of the update_node tool (part_012 lines 42-51, 136-147)
AgentDelete ==
  /\ tpc = "ready"
  /\ \E id \in CallIds :
       LET targetNode == findNodeById(heap, root, id)
           c == [op |-> "agentDelete", id |-> id, updates |-> NoPrimitive]
       IN IF targetNode = NullRef
          THEN Returned([heap |-> heap, ref |-> root], c, "Node not found in slide")
          ELSE LET newRoot == deleteNodeById(heap, root, id) IN
               IF newRoot.ref = NullRef
               THEN Returned([heap |-> newRoot.heap, ref |-> root], c,
                             "Cannot delete the root node")
               ELSE Returned(newRoot, c, "")

NextTree == Update \/ Replace \/ Delete \/ Find \/ Merge \/ AgentUpdate \/ AgentDelete

SpecTree == InitTree /\ [][NextTree]_vars

\* ------------------------------------------------------------------------
\* Contents handed to the inline formatter: every well-nested content of
\* at most MaxRuns pieces, a piece being a text run or an inline tag
\* ------------------------------------------------------------------------
InlineTexts == { <<"A", " ">>, <<"B">>, <<" ", "C">>, <<" ">> }

InlineTags ==
  { [open |-> <<"<", "B", ">">>, close |-> <<"<", "/", "B", ">">>],
    [open |-> <<"<", "I", ">">>, close |-> <<"<", "/", "I", ">">>],
    [open |-> <<"<", "S", "p", "a", "n", " ", "f", "i", "l", "l", "=", "\"", "r", "\"", ">">>,
     close |-> <<"<", "/", "S", "p", "a", "n", ">">>] }

\* the contents of exactly n pieces
RECURSIVE Contents(_)
Contents(n) ==
  IF n = 0 THEN { << >> }
  ELSE { t \o c : t \in InlineTexts, c \in Contents(n - 1) }
       \cup UNION { { g.open \o inner \o g.close \o rest :
                        g \in InlineTags, inner \in Contents(k),
                        rest \in Contents(n - 2 - k) } : k \in 0..(n - 2) }

InlineInputs == UNION { Contents(n) : n \in 1..MaxRuns }

InitInline ==
  /\ ParserIdle
  /\ TreeIdle
  /\ AppIdle
  /\ content \in InlineInputs
  /\ formatted = NoFormat
  /\ fpc = "ready"

\* the parser formats the content of a Text element
Format ==
  /\ fpc = "ready"
  /\ formatted' = formatInline(content)
  /\ fpc' = "done"
  /\ UNCHANGED content
  /\ UNCHANGED parserVars
  /\ UNCHANGED treeVars
  /\ UNCHANGED appVars

NextInline == Format

SpecInline == InitInline /\ [][NextInline]_vars

\* ------------------------------------------------------------------------
\* Documents of nested elements: a root element of any kind around a chain
\* of at most MaxDepth nested elements, each with or without attributes
\* ------------------------------------------------------------------------
T_Bogus == <<"B", "o", "g", "u", "s">>

A_None == << >>
A_Id == <<" ", "i", "d", "=", "\"", "a", "\"">>
A_Q == <<" ", "q", "=", "\"", "1", "\"">>
A_IdQ == A_Id \o A_Q
A_ItemsList == <<" ", "i", "t", "e", "m", "s", "=", "\"", "a", ",", " ", "b", "\"">>
A_ItemsArray ==
  <<" ", "i", "t", "e", "m", "s", "=", "\"", "[", "'", "a", "'", ",", "'", "b", "'", "]", "\"">>
A_ItemsNumber == <<" ", "i", "t", "e", "m", "s", "=", "\"", "5", "\"">>

Unit(tag, attrs) == [tag |-> tag, attrs |-> attrs]

KnownTags ==
  { T_Frame, T_Text, <<"R", "e", "c", "t", "a", "n", "g", "l", "e">>, T_Group,
    Lit.Slide, Lit.SlideTitle, Lit.Card, Lit.StatNumber, Lit.BulletList,
    Lit.Heading, Lit.Paragraph }

SugarTags ==
  { Lit.Slide, Lit.SlideTitle, Lit.Card, Lit.StatNumber, Lit.BulletList,
    Lit.Heading, Lit.Paragraph }

RootUnits ==
  { Unit(t, a) : t \in KnownTags, a \in {A_None, A_IdQ} }
  \cup { Unit(Lit.BulletList, a) :
           a \in {A_ItemsList, A_ItemsArray, A_ItemsNumber, A_Id \o A_ItemsList} }
  \cup { Unit(T_Bogus, A_None) }

InnerUnits ==
  { Unit(T_Frame, A_None), Unit(T_Frame, A_IdQ), Unit(T_Text, A_IdQ),
    Unit(Lit.Card, A_IdQ), Unit(Lit.StatNumber, A_IdQ),
    Unit(Lit.BulletList, A_IdQ \o A_ItemsList), Unit(T_Bogus, A_None) }

ElementText(u, inner) ==
  IF inner = << >> THEN <<"<">> \o u.tag \o u.attrs \o <<"/", ">">>
  ELSE <<"<">> \o u.tag \o u.attrs \o <<">">> \o inner \o <<"<", "/">> \o u.tag \o <<">">>

LeafContents == { << >>, <<"x">> }

\* two sibling elements
PairContents ==
  { ElementText(Unit(T_Text, A_None), <<"x">>) \o ElementText(Unit(T_Text, A_Q), <<"y">>),
    ElementText(Unit(T_Text, A_Q), << >>) \o ElementText(Unit(T_Bogus, A_None), << >>) }

RECURSIVE InnerElements(_)
InnerElements(d) ==
  { ElementText(u, c) :
      u \in InnerUnits,
      c \in LeafContents \cup (IF d = 0 THEN {} ELSE InnerElements(d - 1)) }

Documents ==
  { ElementText(u, c) :
      u \in RootUnits,
      c \in LeafContents \cup PairContents \cup InnerElements(MaxDepth - 1) }

InitElements ==
  /\ \E d \in Documents : chunks = <<TextChunk(d)>>
  /\ pc = "ready"
  /\ result = NoResult
  /\ serialized = << >>
  /\ reparsed = NoResult
  /\ warnings = << >>
  /\ batch = NoBatch
  /\ TreeIdle
  /\ InlineIdle
  /\ AppIdle

\* a caller runs validateDSL on the document with a warnings array
Warned(v, w) ==
  /\ v.completion # "hang"
  /\ result' = v
  /\ warnings' = w
  /\ pc' = "validated"
  /\ UNCHANGED <<chunks, serialized, reparsed, batch>>
  /\ UNCHANGED treeVars
  /\ UNCHANGED inlineVars
  /\ UNCHANGED appVars

ValidateWithWarnings ==
  /\ pc = "ready"
  /\ Warned(validateDSL(TextOf(chunks)), parseWarnings(TextOf(chunks)))

NextElements == ValidateWithWarnings

SpecElements == InitElements /\ [][NextElements]_vars

\* ------------------------------------------------------------------------
\* Documents with comments: one well-formed document, with nothing, white
\* space or a comment at each place between its tokens, at most MaxGaps of
\* the places filled
\* ------------------------------------------------------------------------
Skeleton ==
  << <<"<", "F", "r", "a", "m", "e">>,
     <<" ", "i", "d", "=", "\"", "a", "\"">>,
     <<">">>,
     <<"x">>,
     <<"<", "T", "e", "x", "t", "/", ">">>,
     <<"<", "G", "r", "o", "u", "p", "/", ">">>,
     <<"<", "/", "F", "r", "a", "m", "e", ">">> >>

\* the places: before each token of the skeleton and after the last one
Places == 1..(Len(Skeleton) + 1)

Fillers ==
  { Piece("ws", <<" ">>),
    Piece("comment", <<"<", "!", "-", "-", "c", "-", "-", ">">>),
    Piece("comment", <<"<", "!", "-", "-", "\n", ">", "-", "-", ">">>) }

NoFiller == Piece("none", << >>)

\* the document with filling f: the fillers and the tokens in turn
Filled(f) ==
  [i \in 1..(2 * Len(Skeleton) + 1) |->
     IF i % 2 = 1 THEN f[(i + 1) \div 2] ELSE Piece("token", Skeleton[i \div 2])]

CommentInputs ==
  { Filled(f) : f \in { g \in [Places -> Fillers \cup {NoFiller}] :
                          Cardinality({ i \in Places : g[i] # NoFiller }) <= MaxGaps } }

InitComments ==
  /\ chunks \in CommentInputs
  /\ pc = "ready"
  /\ result = NoResult
  /\ serialized = << >>
  /\ reparsed = NoResult
  /\ warnings = << >>
  /\ batch = NoBatch
  /\ TreeIdle
  /\ InlineIdle
  /\ AppIdle

NextComments == Validate \/ ValidateDiverges

SpecComments == InitComments /\ [][NextComments]_vars

\* ------------------------------------------------------------------------
\* Batches: at most MaxPieces pieces, each a whole element, a separator or
\* text outside any element
\* ------------------------------------------------------------------------
BatchPieces ==
  { Piece("element", ElementText(Unit(T_Text, A_None), <<"x">>)),
    Piece("element", ElementText(Unit(T_Frame, A_Id), ElementText(Unit(T_Group, A_None), << >>))),
    Piece("element", ElementText(Unit(T_Group, A_None), << >>)),
    Piece("element", ElementText(Unit(T_Bogus, A_None), << >>)),
    Piece("element", ElementText(Unit(T_Frame, <<" ", "!">>), << >>)),
    Piece("ws", <<"\n">>),
    Piece("comment", <<"<", "!", "-", "-", "c", "-", "-", ">">>),
    Piece("stray", <<"t">>),
    Piece("stray", <<"<", "/", "a", ">">>) }

BatchInputs == UNION { [1..n -> BatchPieces] : n \in 1..MaxPieces }

InitBatch ==
  /\ chunks \in BatchInputs
  /\ pc = "ready"
  /\ result = NoResult
  /\ serialized = << >>
  /\ reparsed = NoResult
  /\ warnings = << >>
  /\ batch = NoBatch
  /\ TreeIdle
  /\ InlineIdle
  /\ AppIdle

\* a caller runs parseDSLMultiple on the document: it returns or throws
Batched(r) ==
  /\ r.kind # "hang"
  /\ batch' = r
  /\ pc' = "batched"
  /\ UNCHANGED <<chunks, result, serialized, reparsed, warnings>>
  /\ UNCHANGED treeVars
  /\ UNCHANGED inlineVars
  /\ UNCHANGED appVars

ParseMultiple ==
  /\ pc = "validated"
  /\ Batched(parseDSLMultiple(TextOf(chunks)))

\* the call never returns
ParseMultipleDiverges ==
  /\ pc = "validated"
  /\ parseDSLMultiple(TextOf(chunks)).kind = "hang"
  /\ pc' = "looping"
  /\ UNCHANGED <<chunks, result, serialized, reparsed, warnings, batch>>
  /\ UNCHANGED treeVars
  /\ UNCHANGED inlineVars
  /\ UNCHANGED appVars

NextBatch == Validate \/ ValidateDiverges \/ ParseMultiple \/ ParseMultipleDiverges

SpecBatch == InitBatch /\ [][NextBatch]_vars

\* ------------------------------------------------------------------------
\* Reference reading of a chunk sequence, independent of the tokenizer:
\* which elements are open after each chunk
\* ------------------------------------------------------------------------
HasQuote(c) == Includes(c.s, "\"")
HasBrace(c) == Includes(c.s, "{") \/ Includes(c.s, "}")

\* status: "end"      - the chunks ran out (mode and stack tell where)
\*         "closed"   - the root element was completed
\*         "mismatch" - a closing tag named `got` met the open element `expected`
\*         "other"    - anything else
RECURSIVE Scan(_, _, _)
Scan(cs, stack, mode) ==
  LET Res(status, expected, got) ==
        [status |-> status, stack |-> stack, mode |-> mode,
         expected |-> expected, got |-> got]
  IN
  IF cs = << >> THEN Res("end", << >>, << >>)
  ELSE
  LET c == Head(cs)
      rest == Tail(cs)
      top == stack[Len(stack)]
      pop == SubSeq(stack, 1, Len(stack) - 1)
  IN
  CASE mode = "content" /\ stack = << >> ->
         ( CASE c.k = "ws"       -> Scan(rest, stack, mode)
             [] c.k = "open"     -> Scan(rest, <<c.tag>>, "content")
             [] c.k = "openpart" -> Scan(rest, <<c.tag>>, "tag")
             [] c.k = "self"     -> Res("closed", << >>, << >>)
             [] OTHER            -> Res("other", << >>, << >>) )
    [] mode = "content" /\ stack # << >> ->
         ( CASE c.k = "open"     -> Scan(rest, Append(stack, c.tag), "content")
             [] c.k = "openpart" -> Scan(rest, Append(stack, c.tag), "tag")
             [] c.k = "close"    ->
                  IF c.tag # top THEN Res("mismatch", top, c.tag)
                  ELSE IF pop = << >> THEN Res("closed", << >>, << >>)
                  ELSE Scan(rest, pop, "content")
             [] OTHER            -> Scan(rest, stack, mode) )
    [] mode = "tag" ->
         ( CASE c.k = "ws"    -> Scan(rest, stack, mode)
             [] c.k = "attrq" -> Scan(rest, stack, "quote")
             [] c.k = "attrb" -> Scan(rest, stack, "brace")
             [] c.k = "gt"    -> Scan(rest, stack, "content")
             [] OTHER         -> Res("other", << >>, << >>) )
    [] mode = "quote" ->
         ( CASE c.k = "quote" -> Scan(rest, stack, "tag")
             [] ~HasQuote(c)  -> Scan(rest, stack, mode)
             [] OTHER         -> Res("other", << >>, << >>) )
    [] OTHER ->
         ( CASE c.k = "brace" -> Scan(rest, stack, "tag")
             [] ~HasBrace(c)  -> Scan(rest, stack, mode)
             [] OTHER         -> Res("other", << >>, << >>) )

Reading == Scan(chunks, << >>, "content")

\* the document ends while an element is still open
EndsWhileOpen == Reading.status = "end" /\ Reading.stack # << >>

\* the error the parse of the document throws (when it throws one)
ThrownError == parseDSL(TextOf(chunks)).err

MismatchTemplate == "Mismatched closing tag: expected </%1>, got </%2>"
UnknownElementTemplate == "Unknown element type: <%1>. Valid types are: %2"

\* ------------------------------------------------------------------------
\* Round trip
\* ------------------------------------------------------------------------
AllKeys == DOMAIN KeyChars

RECURSIVE Equivalent(_, _)
Equivalent(p, q) ==
  /\ \A k \in AllKeys : Get(p, k) = Get(q, k)
  /\ Len(getChildren(p)) = Len(getChildren(q))
  /\ \A i \in DOMAIN getChildren(p) :
       Equivalent(getChildren(p)[i], getChildren(q)[i])

\* C1: for every successfully parsed tree T, parsing serializeDSL(T) succeeds
\* and yields a tree with the same node kinds, property values, child order
\* and text content
C1_RoundTrip ==
  pc = "reparsed" =>
    /\ reparsed.success
    /\ Equivalent(result.primitive, reparsed.primitive)

C8_OpenAtEndFails ==
  (pc = "validated" /\ EndsWhileOpen) =>
    /\ ~result.success
    /\ result.error.template # ""
    /\ result.line >= 1
    /\ result.column >= 1
    /\ result.context # << >>

\* C9: a closing tag whose name differs (case-sensitively) from the name of
\* the element it closes makes the parse fail with a diagnostic that names
\* the expected name and the name found
C9_MismatchedClosingTag ==
  Reading.status = "mismatch" =>
    /\ pc # "looping"
    /\ pc = "validated" =>
         /\ ~result.success
         /\ result.error.template = MismatchTemplate
         /\ result.error.args = <<Reading.expected, Reading.got>>
         /\ result.error.found = <<"<", "/">> \o Reading.got \o <<">">>

\* a mismatch that differs only in letter case was diagnosed
C9_Witness ==
  /\ pc = "validated"
  /\ Reading.status = "mismatch"
  /\ Reading.expected # Reading.got
  /\ toLowerCase(Reading.expected) = toLowerCase(Reading.got)
  /\ ~result.success

\* line and column of an offset of the caller's text
LineBreaksBefore(xml, off) == Cardinality({i \in 1..off : xml[i] = "\n"})

LastLineBreak(xml, off) ==
  IF \E i \in 1..off : xml[i] = "\n"
  THEN CHOOSE i \in 1..off : xml[i] = "\n" /\ \A j \in (i + 1)..off : xml[j] # "\n"
  ELSE 0

\* the offset in the caller's text of an offset of the trimmed text
CallerOffset(xml, off) == (Len(xml) - Len(TrimStart(xml))) + off

\* C10: the line and column of every located error are those of the failure
\* offset in the caller's input
C10_ErrorPosition ==
  (pc = "validated" /\ ~result.success /\ result.line # NoPos) =>
    LET xml == TextOf(chunks)
        off == CallerOffset(xml, ThrownError.offset)
    IN /\ result.line = 1 + LineBreaksBefore(xml, off)
       /\ result.column = 1 + (off - LastLineBreak(xml, off))


\* ------------------------------------------------------------------------
\* Tree mutators
\* ------------------------------------------------------------------------
\* the addresses of the subtree at r
RECURSIVE Desc(_, _)
Desc(h, r) ==
  {r} \cup UNION { Desc(h, childrenOf(h, r)[i]) : i \in DOMAIN childrenOf(h, r) }

InputNodes == Desc(heap0, root)

\* the nodes of the input tree that carry the id of the call
Matches == { a \in InputNodes : idIs(heap0[a], call.id) }

IsAncestor(a, b) == a # b /\ b \in Desc(heap0, a)

\* the matches that are not inside another match
TopMatches == { a \in Matches : ~\E m \in Matches : IsAncestor(m, a) }

\* the nodes on the paths from the root to the top matches, matches excluded
PathNodes == { a \in InputNodes : \E t \in TopMatches : IsAncestor(a, t) }

\* the nodes neither on such a path nor at or below a match
OffPath == InputNodes \ (PathNodes \cup UNION { Desc(heap0, t) : t \in TopMatches })

\* the objects of the returned tree that did not exist before the call
NewObjects == { a \in Desc(heap, ret) : a > Len(heap0) }

\* the node of the returned tree at the position node a had in the input tree
RECURSIVE Image(_, _, _)
Image(r0, r1, a) ==
  IF r0 = a THEN r1
  ELSE LET ks0 == childrenOf(heap0, r0)
           ks1 == childrenOf(heap, r1)
       IN IF \E i \in DOMAIN ks0 : a \in Desc(heap0, ks0[i])
          THEN LET i == CHOOSE j \in DOMAIN ks0 : a \in Desc(heap0, ks0[j])
               IN Image(ks0[i], ks1[i], a)
          ELSE NullRef

\* C3: updateNodeById with an id no node carries returns the very root
\* object it was given
C3_NoOpUpdateIdentity ==
  (tpc = "done" /\ call.op = "update" /\ Matches = {}) =>
    /\ ret = root
    /\ heap = heap0

\* an update with an absent id on a tree whose root has children
C3_Witness ==
  /\ tpc = "done"
  /\ call.op = "update"
  /\ Matches = {}
  /\ childrenOf(heap0, root) # << >>
  /\ ret = root

\* C4: after an update, replace or delete that changes a node, the new
\* objects of the returned tree are the changed nodes and their ancestors,
\* and every subtree off that path is the same object as before
C4_StructuralSharing ==
  (tpc = "done" /\ call.op \in {"update", "replace", "delete"}
     /\ TopMatches # {} /\ ret # NullRef) =>
    /\ Cardinality(NewObjects) =
         Cardinality(PathNodes)
         + (IF call.op = "update" THEN Cardinality(TopMatches) ELSE 0)
    /\ OffPath \subseteq Desc(heap, ret)
    /\ call.op \in {"update", "replace"} =>
         \A a \in OffPath : Image(root, ret, a) = a
    /\ call.op = "update" =>
         \A t \in TopMatches : (Desc(heap0, t) \ {t}) \subseteq Desc(heap, ret)
    /\ call.op = "replace" =>
         \A t \in TopMatches : Image(root, ret, t) = replacement

\* a change below the root, next to a sibling subtree that has children
C4_Witness ==
  /\ tpc = "done"
  /\ call.op \in {"update", "replace", "delete"}
  /\ TopMatches # {}
  /\ root \notin TopMatches
  /\ \E a \in OffPath : childrenOf(heap0, a) # << >>
  /\ ret # root

\* C5: no mutator call modifies a node object of the tree passed to it
C5_InputUntouched ==
  \A a \in DOMAIN heap0 : a \in DOMAIN heap /\ heap[a] = heap0[a]

\* a merge that produced an object differing from the original node
C5_Witness ==
  /\ tpc = "done"
  /\ call.op \in {"merge", "agentUpdate"}
  /\ toolError = ""
  /\ \E a \in Desc(heap, ret) : a > Len(heap0) /\ heap[a] # heap0[findNodeById(heap0, root, call.id)]
  /\ \E i \in DOMAIN call.updates.props : call.updates.props[i].val.t = "null"

\* the keys the update object of the call sets to null
NullKeys == { call.updates.props[i].key : i \in { j \in DOMAIN call.updates.props :
                                            call.updates.props[j].val.t = "null" } }

\* C6: after an update (by updateNodeById, or by the agent's update path)
\* with an update object that sets field f to null, the matched node of the
\* resulting tree has no field f
C6_NullDeletesField ==
  (tpc = "done" /\ call.op \in {"update", "agentUpdate"} /\ toolError = ""
     /\ Matches # {}) =>
    LET target == findNodeById(heap0, root, call.id) IN
    \A k \in NullKeys : ~HasProp(heap[Image(root, ret, target)], k)

IsPrefix(p, s) == Len(p) <= Len(s) /\ SubSeq(s, 1, Len(p)) = p

Drop(s, n) == SubSeq(s, n + 1, Len(s))

\* reference reading of a content: each character of its character data
\* with the inline tags that enclose it, outermost first
RECURSIVE Marks(_, _)
Marks(c, stack) ==
  IF c = << >> THEN << >>
  ELSE IF \E g \in InlineTags : IsPrefix(g.open, c)
  THEN LET g == CHOOSE h \in InlineTags : IsPrefix(h.open, c)
       IN Marks(Drop(c, Len(g.open)), Append(stack, g))
  ELSE IF \E g \in InlineTags : IsPrefix(g.close, c)
  THEN LET g == CHOOSE h \in InlineTags : IsPrefix(h.close, c)
       IN Marks(Drop(c, Len(g.close)), SubSeq(stack, 1, Len(stack) - 1))
  ELSE <<[ch |-> Head(c), tags |-> { stack[i].open : i \in DOMAIN stack }]>>
       \o Marks(Tail(c), stack)

\* the marks without the white space before the first and after the last
\* character that is not white space
RECURSIVE MarksTrimStart(_)
MarksTrimStart(m) ==
  IF m # << >> /\ Head(m).ch \in TrimSet THEN MarksTrimStart(Tail(m)) ELSE m

RECURSIVE MarksTrimEnd(_)
MarksTrimEnd(m) ==
  IF m # << >> /\ m[Len(m)].ch \in TrimSet
  THEN MarksTrimEnd(SubSeq(m, 1, Len(m) - 1)) ELSE m

OuterMarks(c) == MarksTrimEnd(MarksTrimStart(Marks(c, << >>)))

Segments == formatted.list.segments

SegmentTexts == Concat([i \in DOMAIN Segments |-> Segments[i].text])

Bold == [NoStyle EXCEPT !["fontWeight"] = Num(700)]

Plain(t) == Run(t, NoStyle)

EnclosedStyle(tags) ==
  [k \in StyleKeys |->
     IF k = "fontWeight" /\ <<"<", "B", ">">> \in tags THEN Num(700)
     ELSE IF k = "fontStyle" /\ <<"<", "I", ">">> \in tags
     THEN Str(<<"i", "t", "a", "l", "i", "c">>)
     ELSE IF k = "fill" /\ \E t \in tags : Len(t) > 3 THEN Str(<<"r">>)
     ELSE Undefined]

\* the style of each character of the segments, in order
SegmentStyles ==
  Concat([i \in DOMAIN Segments |->
            [j \in DOMAIN Segments[i].text |-> Segments[i].style]])

RECURSIVE PreOrder(_, _)
PreOrder(h, r) ==
  <<r>> \o Concat([i \in DOMAIN childrenOf(h, r) |-> PreOrder(h, childrenOf(h, r)[i])])

\* the positions of the matches in the pre-order of the input tree
MatchPositions ==
  { i \in DOMAIN PreOrder(heap0, root) : idIs(heap0[PreOrder(heap0, root)[i]], call.id) }

\* C14: findNodeById returns the first node in pre-order that carries the
\* id, and null exactly when no node of the tree carries it.
C14_FindFirstInPreOrder ==
  (tpc = "done" /\ call.op = "find") =>
    /\ ret = NullRef <=> MatchPositions = {}
    /\ MatchPositions # {} =>
         /\ ret = PreOrder(heap0, root)[CHOOSE i \in MatchPositions :
                                          \A j \in MatchPositions : i <= j]
    /\ heap = heap0

\* the id is carried by two nodes, the first of them below an earlier
\* sibling of the second
C14_Witness ==
  /\ tpc = "done"
  /\ call.op = "find"
  /\ Cardinality(MatchPositions) >= 2
  /\ ret # root
  /\ \E p \in InputNodes : \E i, j \in DOMAIN childrenOf(heap0, p) :
       /\ i < j
       /\ ret \in Desc(heap0, childrenOf(heap0, p)[i]) \ {childrenOf(heap0, p)[i]}
       /\ idIs(heap0[childrenOf(heap0, p)[j]], call.id)

\* the children of input node p that do not carry the id of the call
Kept(p) == SelectSeq(childrenOf(heap0, p), LAMBDA c : ~idIs(heap0[c], call.id))

\* node r1 of the returned tree is input node r0 without the matches below it
RECURSIVE DeletedFrom(_, _)
DeletedFrom(r0, r1) ==
  /\ heap[r1].props = heap0[r0].props
  /\ Len(childrenOf(heap, r1)) = Len(Kept(r0))
  /\ \A i \in DOMAIN Kept(r0) : DeletedFrom(Kept(r0)[i], childrenOf(heap, r1)[i])

\* C15: after deleteNodeById with an id that a node other than the root
\* carries, every parent's child list in the returned tree is its former
\* list without the matched nodes (and so without their subtrees), the other
\* children in their original order.
C15_DeleteRemovesFromParent ==
  (tpc = "done" /\ call.op = "delete" /\ Matches # {} /\ root \notin Matches) =>
    /\ ret # NullRef
    /\ DeletedFrom(root, ret)
    /\ \A m \in Matches : Desc(heap0, m) \cap Desc(heap, ret) = {}

\* a match between two siblings that stay
C15_Witness ==
  /\ tpc = "done"
  /\ call.op = "delete"
  /\ root \notin Matches
  /\ \E p \in InputNodes :
       /\ Len(childrenOf(heap0, p)) = 3
       /\ childrenOf(heap0, p)[2] \in Matches
       /\ Len(Kept(p)) = 2

\* ------------------------------------------------------------------------
\* Expansion, warning and vocabulary claims (SpecElements)
\* ------------------------------------------------------------------------
Doc == TextOf(chunks)

\* the document's root element is written with tag t
RootTagIs(t) ==
  \E e \in {" ", ">", "/"} : IsPrefix(<<"<">> \o t \o <<e>>, Doc)

\* the document's root element is written with tag t and attribute text a
RootIs(t, a) ==
  \E e \in {">", "/"} : IsPrefix(<<"<">> \o t \o a \o <<e>>, Doc)

OccursIn(sub, str) ==
  \E i \in 0..(Len(str) - Len(sub)) : SubSeq(str, i + 1, i + Len(sub)) = sub

RECURSIVE NoIdBelow(_)
NoIdBelow(prim) ==
  \A i \in DOMAIN prim.children :
    /\ Get(prim.children[i], "id") = Undefined
    /\ NoIdBelow(prim.children[i])

\* C16: the root node of a sugar element's expansion carries the id written
\* on the element, or none when none was written; the nodes generated by
\* the expansion of a stat element or a bulleted list carry no id, and a
\* title, heading or paragraph expands to a single node.
C16_SugarIdOnRootOnly ==
  (pc = "validated" /\ result.success) =>
    \A t \in SugarTags : RootTagIs(t) =>
      /\ Get(result.primitive, "id") =
           (IF \E a \in {A_IdQ, A_Id \o A_ItemsList} : RootIs(t, a)
            THEN Str(<<"a">>) ELSE Undefined)
      /\ t \in {Lit.StatNumber, Lit.BulletList} => NoIdBelow(result.primitive)
      /\ t \in {Lit.SlideTitle, Lit.Heading, Lit.Paragraph} =>
           result.primitive.children = << >>

\* a bulleted list with an id, expanded into two rows
C16_Witness ==
  /\ pc = "validated"
  /\ result.success
  /\ RootIs(Lit.BulletList, A_Id \o A_ItemsList)
  /\ Len(result.primitive.children) = 2
  /\ Get(result.primitive, "id") = Str(<<"a">>)

\* the defaults of the documented SlideTitle template
SlideTitleDocFontSize == 60
SlideTitleDocFontWeight == 300

\* C17: a slide title written with only its text gives a Text node with that
\* text and with the documented default font size and font weight.
C17_SlideTitleDocumentedDefaults ==
  (pc = "validated" /\ Doc = ElementText(Unit(Lit.SlideTitle, A_None), <<"x">>)) =>
    /\ result.success
    /\ Get(result.primitive, "type") = Str(Lit.text)
    /\ Get(result.primitive, "text") = Str(<<"x">>)
    /\ Get(result.primitive, "fontSize") = Num(SlideTitleDocFontSize)
    /\ Get(result.primitive, "fontWeight") = Num(SlideTitleDocFontWeight)

\* the root element as the tokenizer reads it
RootElement == parseElement(Doc, ParseState(0, 1, 1)).el

\* the literal Text children of the root element
TextKids ==
  SelectSeq(RootElement.children, LAMBDA c : ~c.isText /\ c.el.tag = T_Text)

\* the items the claim gives a bulleted list that has no Text child
AttributeItems ==
  IF \E a \in {A_ItemsList, A_ItemsArray, A_Id \o A_ItemsList} : RootIs(Lit.BulletList, a)
  THEN << <<"a">>, <<"b">> >>
  ELSE IF RootIs(Lit.BulletList, A_ItemsNumber) THEN << <<"5">> >>
  ELSE << >>

\* the item text of row i of the expansion
RowText(i) == Get(result.primitive.children[i].children[2], "text")

\* C18: a bulleted list always expands, with one row per item: the texts of
\* its Text children when it has any, else the items attribute read as an
\* array or split on commas.
C18_BulletItemsDetermined ==
  (pc = "validated" /\ RootTagIs(Lit.BulletList)) =>
    /\ result.success
    /\ TextKids # << >> => Len(result.primitive.children) = Len(TextKids)
    /\ TextKids = << >> =>
         /\ Len(result.primitive.children) = Len(AttributeItems)
         /\ \A i \in DOMAIN AttributeItems : RowText(i) = Str(AttributeItems[i])

\* the name at the start of d
RECURSIVE NameOf(_)
NameOf(d) ==
  IF d # << >> /\ IsNameChar(Head(d)) THEN <<Head(d)>> \o NameOf(Tail(d)) ELSE << >>

\* the position of the first ">" of d at or after position n
RECURSIVE TagEndFrom(_, _)
TagEndFrom(d, n) == IF d[n] = ">" THEN n ELSE TagEndFrom(d, n + 1)

TagEnd(d) == TagEndFrom(d, 1)

Containers == {T_Frame, T_Group, Lit.Slide, Lit.Card}

\* reference reading of a document: its elements in document order, each
\* with its tag, whether it carries the attribute q, and whether it is the
\* root or nested under container elements only
RECURSIVE ElementsOf(_, _)
ElementsOf(d, stack) ==
  IF d = << >> THEN << >>
  ELSE IF Head(d) # "<" THEN ElementsOf(Tail(d), stack)
  ELSE IF d[2] = "/" THEN ElementsOf(Drop(d, TagEnd(d)), SubSeq(stack, 1, Len(stack) - 1))
  ELSE <<[tag |-> NameOf(Tail(d)),
          q |-> OccursIn(A_Q, SubSeq(d, 1, TagEnd(d))),
          converted |-> \A i \in DOMAIN stack : stack[i] \in Containers]>>
       \o ElementsOf(Drop(d, TagEnd(d)),
                     IF d[TagEnd(d) - 1] = "/" THEN stack
                     ELSE Append(stack, NameOf(Tail(d))))

DocElements == ElementsOf(Doc, << >>)

WarningFor(e) == [type |-> "unknown-attribute", element |-> e.tag, attribute |-> <<"q">>]

WarningsFor(es) == [i \in DOMAIN es |-> WarningFor(es[i])]

\* the document with every attribute q left out
RECURSIVE WithoutQ(_)
WithoutQ(d) ==
  IF d = << >> THEN << >>
  ELSE IF IsPrefix(A_Q, d) THEN WithoutQ(Drop(d, Len(A_Q)))
  ELSE <<Head(d)>> \o WithoutQ(Tail(d))

\* C19 as claimed: a successful parse leaves one warning for every element
\* that carries the unknown attribute, whatever its parent
C19_WarningForEveryElement ==
  (pc = "validated" /\ result.success) =>
    warnings = WarningsFor(SelectSeq(DocElements, LAMBDA e : e.q))

\* C19: a successful parse leaves exactly one warning, naming tag and
\* attribute, for each unknown attribute of an element that is the root or
\* nested under Frame, Group, Slide and Card elements only, in document
\* order, and none for an allow-listed attribute; the parse succeeds or
\* fails as it does without the unknown attributes.
C19_WarningForEveryConvertedElement ==
  pc = "validated" =>
    /\ result.success =>
         warnings = WarningsFor(SelectSeq(DocElements, LAMBDA e : e.q /\ e.converted))
    /\ result.success = validateDSL(WithoutQ(Doc)).success

\* a warning for a nested sugar element
C19_Witness ==
  /\ pc = "validated"
  /\ result.success
  /\ Len(warnings) >= 2
  /\ warnings[Len(warnings)].element \in SugarTags
  /\ LET es == DocElements IN \E i \in DOMAIN es : ~es[i].q

IsUnknownElementError ==
  /\ ~result.success
  /\ result.error.template = UnknownElementTemplate
  /\ result.error.args = <<T_Bogus, <<validTypes>>>>

\* C20 as claimed: an element with an unknown tag anywhere in the document
\* makes the parse fail with the unknown-element error
C20_UnknownElementAnywhereFails ==
  (pc = "validated" /\ LET es == DocElements
                       IN \E i \in DOMAIN es : es[i].tag = T_Bogus) =>
    IsUnknownElementError

\* C20: an element with an unknown tag that is the root, or nested under
\* Frame, Group, Slide and Card elements only, makes the parse fail with the
\* unknown-element error, whose message lists all valid tag names.
C20_UnknownConvertedElementFails ==
  (pc = "validated" /\ LET es == DocElements
                       IN \E i \in DOMAIN es : es[i].tag = T_Bogus /\ es[i].converted) =>
    IsUnknownElementError

\* an unknown element two levels below the root
C20_Witness ==
  /\ pc = "validated"
  /\ IsUnknownElementError
  /\ LET es == DocElements IN Len(es) = 3 /\ es[3].tag = T_Bogus

\* ------------------------------------------------------------------------
\* Comment claims (SpecComments)
\* ------------------------------------------------------------------------
\* the document without its comments
WithoutComments ==
  TextOf(SelectSeq(chunks, LAMBDA c : c.k # "comment"))

\* the place of chunk i of a filled document, for a filler
PlaceOf(i) == (i + 1) \div 2

HasComment == \E i \in DOMAIN chunks : chunks[i].k = "comment"

\* C21: a comment before or after the root element, between children,
\* between text and an element, or inside an opening tag between its
\* attributes is skipped: the parse ends and gives the tree of the document
\* without the comment.
C21_CommentsAreSkipped ==
  (HasComment /\ pc # "ready") =>
    /\ pc = "validated"
    /\ result = validateDSL(WithoutComments)

\* ------------------------------------------------------------------------
\* The slide tools of the agent over the slide store: create_slide
\* (part_014), update_slide (part_011), update_node (part_012).  One slide
\* ------------------------------------------------------------------------
Quotes == {"'", "\""}

\* dsl.replace(/\{['"]\\n['"]\}/g, '\n')
RECURSIVE preprocessDSL(_)
preprocessDSL(dsl) ==
  IF dsl = << >> THEN << >>
  ELSE IF /\ Len(dsl) >= 6
          /\ dsl[1] = "{" /\ dsl[2] \in Quotes /\ dsl[3] = "\\" /\ dsl[4] = "n"
          /\ dsl[5] \in Quotes /\ dsl[6] = "}"
  THEN <<"\n">> \o preprocessDSL(SubSeq(dsl, 7, Len(dsl)))
  ELSE <<Head(dsl)>> \o preprocessDSL(Tail(dsl))

\* no document of the model has an Icon tag: /<Icon\s+([^>]*?)\/>/g matches
\* nothing, the text is returned as it is and no error is collected
resolveIconsInDSL(dsl) == [resolvedDsl |-> dsl, errors |-> << >>]

\* validateSlideRules (part_007 lines 35-122), rules 1 and 2; rules 3 and 4
\* need a numeric width or height, which no document of the model sets
isWhiteFill(color) ==
  LET c == [i \in DOMAIN Trim(color) |-> LowerChar(Trim(color)[i])]
  IN c = <<"#", "f", "f", "f">> \/ c = <<"#", "f", "f", "f", "f", "f", "f">>

RECURSIVE check(_, _)
RECURSIVE checkChildren(_)

\* for (const child of children) check(child, false)
checkChildren(children) ==
  IF children = << >> THEN 0
  ELSE check(Head(children), FALSE) + checkChildren(Tail(children))

\* the number of violations check(node, isRoot) pushes
check(node, isRoot) ==
  IF Get(node, "type") # Str(Lit.frame) THEN 0
  ELSE LET hasAutoLayout == Truthy(Get(node, "layoutMode"))
                            /\ Get(node, "layoutMode") # Str(<<"n", "o", "n", "e">>)
       IN (IF hasAutoLayout /\ Get(node, "gap") = Num(0) THEN 1 ELSE 0)
          + (IF ~isRoot /\ Truthy(Get(node, "fill")) /\ isWhiteFill(Get(node, "fill").s)
             THEN 1 ELSE 0)
          + checkChildren(getChildren(node))

validateSlideRules(root_) == check(root_, TRUE)

\* what a tool call returns, and the snapshot the store holds afterwards
ToolResult(success, error, dsl) ==
  [kind |-> "reply", success |-> success, error |-> error, snapshot |-> dsl]

NoReturn == [kind |-> "hang", success |-> FALSE, error |-> "", snapshot |-> << >>]

\* createSlideTool after validateDSL (part_014 lines 26-54)
createValidated(dsl, validation) ==
  IF validation.completion = "hang" THEN NoReturn
  ELSE IF ~validation.success THEN ToolResult(FALSE, "Invalid DSL", snapshot)
  ELSE IF validateSlideRules(validation.primitive) > 0
  THEN ToolResult(FALSE, "DSL violates slide design rules", snapshot)
  ELSE ToolResult(TRUE, "", dsl)

createSlideTool(dsl) ==
  Only({ createValidated(resolvedDsl, validation) :
           resolvedDsl \in {resolveIconsInDSL(preprocessDSL(dsl)).resolvedDsl},
           validation \in {validateDSL(resolveIconsInDSL(preprocessDSL(dsl)).resolvedDsl)} })

\* updateSlideTool after validateDSL (part_011 lines 21-53)
updateValidated(dsl, validation) ==
  IF validation.completion = "hang" THEN NoReturn
  ELSE IF ~validation.success THEN ToolResult(FALSE, "Invalid DSL", snapshot)
  ELSE ToolResult(TRUE, "", dsl)

updateSlideTool(dsl) ==
  Only({ updateValidated(resolvedDsl, validation) :
           resolvedDsl \in {resolveIconsInDSL(dsl).resolvedDsl},
           validation \in {validateDSL(resolveIconsInDSL(dsl).resolvedDsl)} })

\* the parsed tree as node objects, children before their parent
RECURSIVE loadNode(_, _)
RECURSIVE loadNodes(_, _, _)

loadNodes(h, prims, refs) ==
  IF prims = << >> THEN [heap |-> h, refs |-> refs]
  ELSE Only({ loadNodes(r.heap, Tail(prims), Append(refs, r.ref)) :
                r \in {loadNode(h, Head(prims))} })

loadNode(h, prim) ==
  Only({ Alloc(kids.heap, Primitive(prim.props, prim.hasChildren, kids.refs)) :
           kids \in {loadNodes(h, getChildren(prim), << >>)} })

\* the tree below a node object, as a value
RECURSIVE valueOf(_, _)
valueOf(h, ref) ==
  Primitive(h[ref].props, h[ref].hasChildren,
            [i \in DOMAIN h[ref].children |-> valueOf(h, h[ref].children[i])] \o << >>)

\* part_012 lines 157-173: serialize the new root and store it
storeNewDsl(newDsl) == ToolResult(TRUE, "", newDsl)

serializeAndStore(r) ==
  Only({ storeNewDsl(newDsl) : newDsl \in {serializeDSL(valueOf(r.heap, r.ref), 0)} })

\* part_012 lines 80-82
updateMerged(tree, nodeId, updatedNode) ==
  Only({ serializeAndStore(r) :
           r \in {updateNodeById(updatedNode.heap, tree.ref, nodeId,
                                 updatedNode.heap[updatedNode.ref])} })

\* part_012 line 132
replaceLoaded(tree, nodeId, new) ==
  Only({ serializeAndStore(r) :
           r \in {replaceNodeById(new.heap, tree.ref, nodeId, new.ref)} })

\* part_012 lines 109-133, the replacement parsed
replaceParsed(tree, nodeId, replaceResult) ==
  IF replaceResult.completion = "hang" THEN NoReturn
  ELSE IF ~replaceResult.success THEN ToolResult(FALSE, "Invalid replacement DSL", snapshot)
  ELSE IF validateSlideRules(replaceResult.primitive) > 0
  THEN ToolResult(FALSE, "Replacement DSL violates slide design rules", snapshot)
  ELSE Only({ replaceLoaded(tree, nodeId, new) :
                new \in {loadNode(tree.heap, replaceResult.primitive)} })

\* part_012 lines 136-147
deleteDone(newRoot) ==
  IF newRoot.ref = NullRef THEN ToolResult(FALSE, "Cannot delete the root node", snapshot)
  ELSE serializeAndStore(newRoot)

\* part_012 lines 41-155, the target looked up
operate(tree, targetNode, nodeId, operation, updates, replacement_) ==
  IF targetNode = NullRef THEN ToolResult(FALSE, "Node not found in slide", snapshot)
  ELSE CASE operation = "update" ->
              Only({ updateMerged(tree, nodeId, updatedNode) :
                       updatedNode \in {mergePrimitiveUpdates(tree.heap, targetNode, updates)} })
         [] operation = "replace" ->
              Only({ replaceParsed(tree, nodeId, replaceResult) :
                       replaceResult \in
                         {validateDSL(resolveIconsInDSL(preprocessDSL(replacement_)).resolvedDsl)} })
         [] operation = "delete" ->
              Only({ deleteDone(newRoot) :
                       newRoot \in {deleteNodeById(tree.heap, tree.ref, nodeId)} })

\* part_012 lines 29-39, the current snapshot parsed
updateNodeParsed(parseResult, nodeId, operation, updates, replacement_) ==
  IF parseResult.completion = "hang" THEN NoReturn
  ELSE IF ~parseResult.success
  THEN ToolResult(FALSE, "Failed to parse current slide DSL", snapshot)
  ELSE Only({ Only({ operate(tree, targetNode, nodeId, operation, updates, replacement_) :
                       targetNode \in {findNodeById(tree.heap, tree.ref, nodeId)} }) :
                tree \in {loadNode(<< >>, parseResult.primitive)} })

updateNodeTool(nodeId, operation, updates, replacement_) ==
  IF snapshot = << >> THEN ToolResult(FALSE, "Slide not found", snapshot)
  ELSE Only({ updateNodeParsed(parseResult, nodeId, operation, updates, replacement_) :
                parseResult \in {validateDSL(snapshot)} })

\* the documents the agent writes
SlideDocs ==
  { ElementText(Unit(T_Frame, A_Id),
                <<"<", "T", "e", "x", "t", " ", "i", "d", "=", "\"", "b", "\"", ">", "x",
                  "<", "/", "T", "e", "x", "t", ">">>),
    <<"<", "T", "e", "x", "t", " ", "i", "d", "=", "\"", "a", "\"", ">", "x",
      "{", "'", "\\", "n", "'", "}", "y", "<", "/", "T", "e", "x", "t", ">">>,
    <<"<", "F", "r", "a", "m", "e", " ", "i", "d", "=", "\"", "a", "\"", ">">>,
    ElementText(Unit(T_Frame, A_Id),
                <<"<", "F", "r", "a", "m", "e", " ", "i", "d", "=", "\"", "b", "\"", " ",
                  "f", "i", "l", "l", "=", "\"", "#", "F", "F", "F", "\"", "/", ">">>) }

Replacements ==
  { <<"<", "G", "r", "o", "u", "p", " ", "i", "d", "=", "\"", "b", "\"", "/", ">">>,
    ElementText(Unit(T_Bogus, A_None), << >>) }

\* the update objects the agent passes to update_node
NodeUpdates ==
  { Primitive(<<Prop("fill", Str(Fill_red))>>, FALSE, << >>),
    Primitive(<<Prop("text", Str(<<"a", "<", "b">>))>>, FALSE, << >>),
    Primitive(<<Prop("name", Null)>>, FALSE, << >>),
    Primitive(<<Prop("font size", Str(<<"1">>))>>, FALSE, << >>),
    Primitive(<<Prop("$fill", Str(Fill_red))>>, FALSE, << >>) }

InitStore ==
  /\ ParserIdle
  /\ TreeIdle
  /\ InlineIdle
  /\ snapshot = << >>
  /\ toolReply = NoReply
  /\ calls = 0
  /\ BridgeIdle
  /\ ReviewIdle

\* a tool call returns r
ToolReturned(tool, r) ==
  /\ calls < MaxCalls
  /\ r.kind = "reply"
  /\ snapshot' = r.snapshot
  /\ toolReply' = [tool |-> tool, success |-> r.success, error |-> r.error]
  /\ calls' = calls + 1
  /\ UNCHANGED <<parserVars, treeVars, inlineVars, bridgeVars, reviewVars>>

CreateSlide ==
  \E dsl \in SlideDocs : \E r \in {createSlideTool(dsl)} : ToolReturned("create_slide", r)

UpdateSlide ==
  /\ snapshot # << >>
  /\ \E dsl \in SlideDocs : \E r \in {updateSlideTool(dsl)} : ToolReturned("update_slide", r)

\* the arguments of the update_node calls the agent makes
NodeCalls ==
  { [operation |-> "update", updates |-> u, replacement |-> << >>] : u \in NodeUpdates }
  \cup { [operation |-> "replace", updates |-> NoPrimitive, replacement |-> r] :
           r \in Replacements }
  \cup { [operation |-> "delete", updates |-> NoPrimitive, replacement |-> << >>] }

UpdateNode ==
  \E nodeId \in CallIds, c \in NodeCalls :
    \E r \in {updateNodeTool(nodeId, c.operation, c.updates, c.replacement)} :
      ToolReturned("update_node", r)

\* update_node never returns: validateDSL of the stored snapshot does not end
UpdateNodeDiverges ==
  /\ calls < MaxCalls
  /\ \E nodeId \in CallIds, c \in NodeCalls :
       updateNodeTool(nodeId, c.operation, c.updates, c.replacement).kind = "hang"
  /\ toolReply' = [tool |-> "update_node", success |-> FALSE, error |-> "(no return)"]
  /\ calls' = MaxCalls
  /\ UNCHANGED snapshot
  /\ UNCHANGED <<parserVars, treeVars, inlineVars, bridgeVars, reviewVars>>

NextStore == CreateSlide \/ UpdateSlide \/ UpdateNode \/ UpdateNodeDiverges

SpecStore == InitStore /\ [][NextStore]_vars

\* ------------------------------------------------------------------------
\* FigmaBridge (figma-bridge.ts): the plugin socket, the three maps of
\* pending requests, their promises and timers
\* ------------------------------------------------------------------------
MapNames == {"renderRequests", "snapshotRequests", "selectionHtmlRequests"}
SlideIds == {"s1"}

\* crypto.randomUUID() of the n-th request: a key no other request has
randomUUID(n) == <<"u1", "u2", "u3", "u4", "u5", "u6">>[n]

\* the keys of the maps: slide ids, and the UUIDs of selection requests
BridgeKeys == SlideIds \cup { randomUUID(n) : n \in 1..MaxRequests }

NoRequest == 0

\* a request: its promise (outcome; settled counts the calls of resolve and
\* reject), its timer, and for the record the socket it was sent on, whether
\* the plugin has answered it, the request whose result resolved it and
\* the socket whose close rejected it
PendingRequest(map, key, socket) ==
  [map |-> map, key |-> key, socket |-> socket, outcome |-> "pending", settled |-> 0,
   timer |-> "armed", answered |-> FALSE, resolvedBy |-> NoRequest, closedBy |-> NoSocket]

clearTimeout_forgotten(reqs, r) == reqs

clearTimeout(reqs, r) ==
  IF reqs[r].timer = "armed" THEN [reqs EXCEPT ![r].timer = "cleared"] ELSE reqs

\* a promise keeps its first outcome
reject(reqs, r, reason) ==
  [reqs EXCEPT ![r].settled = @ + 1,
               ![r].outcome = IF @ = "pending" THEN reason ELSE @]

resolve(reqs, r, by) ==
  [reqs EXCEPT ![r].settled = @ + 1,
               ![r].outcome = IF @ = "pending" THEN "resolved" ELSE @,
               ![r].resolvedBy = IF reqs[r].outcome = "pending" THEN by ELSE @]

\* isConnected (lines 79-81)
isConnected ==
  pluginReady /\ plugin # NoSocket /\ sockets[plugin] = "open"

\* createPendingRequest (lines 191-210): the requests after an existing
\* request for the key is cancelled and the new one is added
superseded(existing) ==
  IF existing = NoRequest THEN requests
  ELSE reject(clearTimeout(requests, existing), existing, "Superseded by new request")

createPendingRequest(map, key) ==
  Append(superseded(pendingRequests[map][key]), PendingRequest(map, key, plugin))

\* resolvePending (lines 212-223)
resolvePending(pending, by) ==
  IF pending = NoRequest THEN requests
  ELSE resolve(clearTimeout(requests, pending), pending, by)

\* the requests held in the maps
Held == { pendingRequests[m][k] : m \in MapNames, k \in BridgeKeys } \ {NoRequest}

NoneHeld == [m \in MapNames |-> [k \in BridgeKeys |-> NoRequest]]

RECURSIVE rejectEach(_, _, _)
rejectEach(reqs, held, ws) ==
  IF held = {} THEN reqs
  ELSE LET r == CHOOSE x \in held : TRUE IN
       rejectEach([reject(clearTimeout(reqs, r), r, "Plugin disconnected")
                     EXCEPT ![r].closedBy = IF reqs[r].outcome = "pending" THEN ws ELSE @],
                  held \ {r}, ws)

\* rejectAll (lines 225-244), called when socket ws closes
rejectAll(ws) == rejectEach(requests, Held, ws)

InitBridge ==
  /\ ParserIdle
  /\ TreeIdle
  /\ InlineIdle
  /\ StoreIdle
  /\ ReviewIdle
  /\ plugin = NoSocket
  /\ pluginReady = FALSE
  /\ sockets = << >>
  /\ requests = << >>
  /\ pendingRequests = NoneHeld
  /\ wire = {}

BridgeOnly == UNCHANGED <<parserVars, treeVars, inlineVars, storeVars, reviewVars>>

\* wss.on('connection') (lines 49-52)
Connect ==
  /\ Len(sockets) < MaxSockets
  /\ sockets' = Append(sockets, "open")
  /\ plugin' = Len(sockets) + 1
  /\ pluginReady' = FALSE
  /\ UNCHANGED <<requests, pendingRequests, wire>>
  /\ BridgeOnly

\* a plugin:ready message on an open socket (lines 54-57, 153-156)
PluginReady ==
  /\ \E ws \in DOMAIN sockets : sockets[ws] = "open"
  /\ ~pluginReady
  /\ pluginReady' = TRUE
  /\ UNCHANGED <<plugin, sockets, requests, pendingRequests, wire>>
  /\ BridgeOnly

\* renderSlide, takeSnapshot (key: the slide id) and getSelectionHtml (key:
\* a fresh UUID) up to their await: assertConnected, createPendingRequest,
\* send (lines 87-104, 119-130, 136-146)
Request ==
  /\ isConnected
  /\ Len(requests) < MaxRequests
  /\ \E map \in MapNames :
     \E key \in IF map = "selectionHtmlRequests" THEN {randomUUID(Len(requests) + 1)}
                   ELSE SlideIds :
       /\ requests' = createPendingRequest(map, key)
       /\ pendingRequests' = [pendingRequests EXCEPT ![map][key] = Len(requests) + 1]
  /\ UNCHANGED <<plugin, pluginReady, sockets, wire>>
  /\ BridgeOnly

\* the plugin answers request r on the socket that carried it; the result
\* message names the key only (types.ts)
PluginResult ==
  /\ \E r \in DOMAIN requests :
       /\ ~requests[r].answered
       /\ sockets[requests[r].socket] = "open"
       /\ requests' = [requests EXCEPT ![r].answered = TRUE]
       /\ wire' = wire \cup {[socket |-> requests[r].socket, map |-> requests[r].map,
                              key |-> requests[r].key, for |-> r]}
  /\ UNCHANGED <<plugin, pluginReady, sockets, pendingRequests>>
  /\ BridgeOnly

\* ws.on('message') with a render:result, snapshot:result or
\* selection:html:result (lines 54-57, 158-173)
HandleResult ==
  /\ \E msg \in wire :
       /\ sockets[msg.socket] = "open"
       /\ requests' = resolvePending(pendingRequests[msg.map][msg.key], msg.for)
       /\ pendingRequests' = [pendingRequests EXCEPT ![msg.map][msg.key] = NoRequest]
       /\ wire' = wire \ {msg}
  /\ UNCHANGED <<plugin, pluginReady, sockets>>
  /\ BridgeOnly

\* the timer of request r fires (lines 203-206)
Timeout(r) ==
  /\ r \in DOMAIN requests
  /\ requests[r].timer = "armed"
  /\ pendingRequests' = [pendingRequests EXCEPT ![requests[r].map][requests[r].key] = NoRequest]
  /\ requests' = reject([requests EXCEPT ![r].timer = "fired"], r, "Request timed out")
  /\ UNCHANGED <<plugin, pluginReady, sockets, wire>>
  /\ BridgeOnly

TimerFires == \E r \in 1..MaxRequests : Timeout(r)

\* ws.on('close') (lines 63-71); a closed socket delivers no more messages
Close ==
  /\ \E ws \in DOMAIN sockets :
       /\ sockets[ws] = "open"
       /\ sockets' = [sockets EXCEPT ![ws] = "closed"]
       /\ plugin' = IF plugin = ws THEN NoSocket ELSE plugin
       /\ pluginReady' = IF plugin = ws THEN FALSE ELSE pluginReady
       /\ requests' = rejectAll(ws)
       /\ wire' = { msg \in wire : msg.socket # ws }
  /\ pendingRequests' = NoneHeld
  /\ BridgeOnly

NextBridge == Connect \/ PluginReady \/ Request \/ PluginResult \/ HandleResult \/ TimerFires \/ Close

SpecBridge == InitBridge /\ [][NextBridge]_vars

\* a timer that is armed and not cleared fires: the event loop runs it
SpecBridgeLive ==
  SpecBridge /\ \A r \in 1..MaxRequests : WF_vars(Timeout(r))

\* ------------------------------------------------------------------------
\* Visual review of rendered slides (backend websocket handler)
\* ------------------------------------------------------------------------
ReviewSlides == {"s1", "s2"}

\* a message between the backend and the client; cycle counts the reviews
\* that lie between the user's chat message and this message
ServerMessage(type, slideId, cycle) == [type |-> type, slideId |-> slideId, cycle |-> cycle]

Review(slideId, cycle) == [slideId |-> slideId, cycle |-> cycle, state |-> "running"]

\* setTimeout(() => slidesUnderReview.delete(slideId), 5000)
setTimeout(timers, slideId) == Append(timers, [slideId |-> slideId, state |-> "armed"])

InitReview ==
  /\ ParserIdle
  /\ TreeIdle
  /\ InlineIdle
  /\ StoreIdle
  /\ BridgeIdle
  /\ ReviewIdle

ReviewOnly == UNCHANGED <<parserVars, treeVars, inlineVars, storeVars, bridgeVars>>

\* the chat handler sends the slide the agent created or changed for render
ChatRender ==
  \E s \in ReviewSlides :
    /\ ServerMessage("render:slide", s, 0) \notin channel
    /\ channel' = channel \cup {ServerMessage("render:slide", s, 0)}
    /\ UNCHANGED <<slidesUnderReview, guardTimers, reviews>>
    /\ ReviewOnly

\* the client renders the slide and sends back a snapshot of it
ClientSnapshot ==
  \E m \in channel :
    /\ m.type = "render:slide"
    /\ channel' = (channel \ {m}) \cup {ServerMessage("snapshot:result", m.slideId, m.cycle)}
    /\ UNCHANGED <<slidesUnderReview, guardTimers, reviews>>
    /\ ReviewOnly

\* handleSnapshotResult up to the start of the agent's review
SnapshotResult ==
  \E m \in channel, session \in BOOLEAN :
    /\ m.type = "snapshot:result"
    /\ channel' = channel \ {m}
    /\ IF ~session \/ m.slideId \in slidesUnderReview
       THEN UNCHANGED <<slidesUnderReview, reviews>>
       ELSE /\ Len(reviews) < MaxReviews
            /\ slidesUnderReview' = slidesUnderReview \cup {m.slideId}
            /\ reviews' = Append(reviews, Review(m.slideId, m.cycle))
    /\ UNCHANGED guardTimers
    /\ ReviewOnly

\* handleSnapshotResult from the end of the agent's stream
ReviewEnds ==
  \E i \in DOMAIN reviews, outcome \in {"unchanged", "modified", "throws"} :
    /\ reviews[i].state = "running"
    /\ reviews' = [reviews EXCEPT ![i].state = outcome]
    /\ IF outcome = "throws"
       THEN /\ slidesUnderReview' = slidesUnderReview \ {reviews[i].slideId}
            /\ channel' = channel \cup {ServerMessage("error", reviews[i].slideId, reviews[i].cycle)}
            /\ UNCHANGED guardTimers
       ELSE /\ channel' =
                 IF outcome = "modified"
                 THEN channel \cup {ServerMessage("render:slide", reviews[i].slideId, reviews[i].cycle + 1)}
                 ELSE channel
            /\ guardTimers' = setTimeout(guardTimers, reviews[i].slideId)
            /\ UNCHANGED slidesUnderReview
    /\ ReviewOnly

\* the callback of the guard timer
GuardTimer ==
  \E t \in DOMAIN guardTimers :
    /\ guardTimers[t].state = "armed"
    /\ guardTimers' = [guardTimers EXCEPT ![t].state = "fired"]
    /\ slidesUnderReview' = slidesUnderReview \ {guardTimers[t].slideId}
    /\ UNCHANGED <<channel, reviews>>
    /\ ReviewOnly

\* the client shows the error message
ClientError ==
  \E m \in channel :
    /\ m.type = "error"
    /\ channel' = channel \ {m}
    /\ UNCHANGED <<slidesUnderReview, guardTimers, reviews>>
    /\ ReviewOnly

NextReview == ChatRender \/ ClientSnapshot \/ SnapshotResult \/ ReviewEnds \/ GuardTimer \/ ClientError

SpecReview == InitReview /\ [][NextReview]_vars

\* ------------------------------------------------------------------------
\* Batch claims, over SpecBatch
\* ------------------------------------------------------------------------
\* the top-level elements of the batch, in input order
BatchElements == SelectSeq(chunks, LAMBDA c : c.k = "element")

\* nothing but elements, whitespace and comments
ElementsAndSeparatorsOnly == \A i \in DOMAIN chunks : chunks[i].k # "stray"

\* what the single-element parse returns for the i-th element alone
Alone(i) == parseDSL(BatchElements[i].s)

EachAloneReturnsATree == \A i \in DOMAIN BatchElements : Alone(i).kind = "ok"

\* C22: for n top-level elements back to back, optionally separated by
\* whitespace or comments, the batch entry point returns exactly n trees in
\* input order, the i-th equal to the single-element parse of the i-th
\* element alone
C22_BatchIsElementwise ==
  (pc = "batched" /\ ElementsAndSeparatorsOnly /\ EachAloneReturnsATree) =>
    /\ batch.kind = "ok"
    /\ batch.prims = [i \in DOMAIN BatchElements |-> Alone(i).prim]

\* a batch of two different elements with a comment between them has been
\* parsed
C22_Witness ==
  /\ pc = "batched"
  /\ ElementsAndSeparatorsOnly /\ EachAloneReturnsATree
  /\ Len(chunks) = 3 /\ chunks[2].k = "comment"
  /\ Len(BatchElements) = 2
  /\ batch.kind = "ok" /\ Len(batch.prims) = 2
  /\ batch.prims[1] # batch.prims[2]

\* C23: parseDSL, parseDSLMultiple and validateDSL terminate on every finite
\* input: every call ends in a returned value or a raised error, also for a
\* character inside an opening tag that is neither a name character,
\* whitespace, '>' nor '/>', and for text outside any element in a batch
C23_EveryCallEnds ==
  /\ pc # "looping"
  /\ pc = "validated" => result.completion \in {"return", "throw"}
  /\ pc = "batched" => batch.kind \in {"ok", "error"}

\* C24: the single-element parse accepts an input only if it is exactly one
\* top-level element, optionally surrounded by whitespace and comments;
\* anything else after the root element makes the parse fail
C24_ExactlyOneRootAccepted ==
  (pc # "ready" /\ result.completion = "return" /\ result.success) =>
    /\ Len(BatchElements) = 1
    /\ ElementsAndSeparatorsOnly

\* ------------------------------------------------------------------------
\* Duplicate ids, over SpecTree
\* ------------------------------------------------------------------------
\* the node findNodeById returns for the id of the call: the first match in
\* pre-order
FirstMatch ==
  PreOrder(heap0, root)[CHOOSE i \in MatchPositions : \A j \in MatchPositions : i <= j]

\* the other nodes that carry the id, outside the subtree of the first
OtherMatches == Matches \ Desc(heap0, FirstMatch)

\* C25: when several nodes carry the id, updateNodeById, replaceNodeById and
\* deleteNodeById act on the first match in pre-order only; every other node
\* carrying the id stays in the returned tree, the same object with the same
\* subtree
C25_OnlyFirstMatchChanged ==
  (tpc = "done" /\ call.op \in {"update", "replace", "delete"}
     /\ Cardinality(Matches) >= 2 /\ ret # NullRef) =>
    \A m \in OtherMatches :
      /\ Desc(heap0, m) \subseteq Desc(heap, ret)
      /\ \A a \in Desc(heap0, m) : heap[a] = heap0[a]
      /\ call.op \in {"update", "replace"} => Image(root, ret, m) = m

\* ------------------------------------------------------------------------
\* Slide store claims, over SpecStore
\* ------------------------------------------------------------------------
SnapshotParses ==
  /\ validateDSL(snapshot).completion = "return"
  /\ validateDSL(snapshot).success

\* C26: after any sequence of successful create_slide, update_slide and
\* update_node calls the snapshot held for the slide parses with
\* validateDSL, and no update_node call is rejected with 'Failed to parse
\* current slide DSL'
C26_StoredSnapshotParses ==
  /\ snapshot # << >> => SnapshotParses
  /\ toolReply.error # "Failed to parse current slide DSL"

\* ------------------------------------------------------------------------
\* Bridge claims, over SpecBridge and SpecBridgeLive
\* ------------------------------------------------------------------------
Issued(r) == r \in DOMAIN requests
Settled(r) == Issued(r) /\ requests[r].outcome # "pending"

\* resolve or reject was called at most once for every request; a settled
\* request has neither an armed timer nor an entry in a map
SettledOnce ==
  \A r \in DOMAIN requests :
    /\ requests[r].settled <= 1
    /\ requests[r].outcome = "pending" <=> requests[r].settled = 0
    /\ requests[r].outcome # "pending" =>
         /\ requests[r].timer # "armed"
         /\ r \notin Held
         /\ requests[r].outcome \in {"resolved", "Request timed out",
                                     "Superseded by new request", "Plugin disconnected"}

\* C27: every request issued through the bridge is eventually settled, and
\* settled exactly once: resolved by a result for its key, or rejected by
\* the timeout, by a superseding request or by a disconnect; afterwards
\* neither its timer nor its entry remains
C27_EveryRequestSettledOnce ==
  /\ []SettledOnce
  /\ \A r \in 1..MaxRequests : Issued(r) ~> Settled(r)

\* one request superseded, the request that superseded it timed out
C27_Witness ==
  /\ Len(requests) = 2
  /\ requests[1].outcome = "Superseded by new request"
  /\ requests[2].outcome = "Request timed out"
  /\ requests[1].settled = 1 /\ requests[2].settled = 1
  /\ Held = {}

\* C28: a result message settles only the request it answers; a late result
\* for a superseded request does not resolve the newer request for the key
C28_ResultSettlesItsRequest ==
  \A r \in DOMAIN requests :
    requests[r].outcome = "resolved" => requests[r].resolvedBy = r

\* C29: requests are rejected with 'Plugin disconnected' only by the close
\* of the connection they are pending on; the close of an older, replaced
\* connection leaves the requests of the newer connection pending
C29_OnlyOwnConnectionRejects ==
  \A r \in DOMAIN requests :
    requests[r].outcome = "Plugin disconnected" =>
      requests[r].closedBy = requests[r].socket

\* C30: a visual review of a slide never triggers a second review of the
\* slide: the snapshot that follows the re-render sent at the end of a
\* review is skipped by the guard, however late it arrives, so no review is
\* ever started from a snapshot of a review's own re-render
C30_ReRenderIsNotReviewed ==
  \A i \in DOMAIN reviews : reviews[i].cycle = 0

====
